---- MODULE Spec2Model ----
\* A model of crates/git/src/repository.rs: the remote-operation engine
\* (run_remote_command and its callers push / pull / fetch), the structured
\* output parsers (parse_branch_input, parse_upstream_track) and the RepoPath
\* value model.  Each part has its own specification over the shared variables;
\* the variables of the other parts stay at their idle values.
EXTENDS Integers, Sequences, FiniteSets, TLC

VARIABLES
    \* ---- remote-operation engine --------------------------------------
    rpc,          \* position of the caller: idle, pollA, pollB, parked, done
    op,           \* which of push / pull / fetch was called
    workdir,      \* whether the repository has a working directory
    ask_pass,     \* terminal state of the credential session, or "pending"
    git_process,  \* the spawned subprocess: state, exit code, stdout, stderr
    result,       \* what the call returned
    askHandle,    \* ownership of the AskPassSession value
    childHandle,  \* ownership of the smol::process::Child value
    outputTaken,  \* the engine obtained the subprocess's Output value
    spawns,       \* how many subprocesses this call spawned
    returns,      \* how many outcomes this call produced
    firstReady,   \* history: which side became ready first
    atPoll,       \* history: what was ready when the session was last polled
    \* ---- structured-output parsers -----------------------------------
    ppc,          \* idle, ready (an input is given) or done (it was parsed)
    pcase,        \* how the input was built: the values it encodes
    pinput,       \* the input text, a sequence of characters
    presult,      \* what the parser returned
    \* ---- RepoPath ------------------------------------------------------
    path,         \* the path handed to a constructor, a sequence of characters
    build,        \* "debug" (debug assertions on) or "release"
    platform,     \* "unix" or "windows": how std::path reads the path
    rppc,         \* idle, start, constructed, panicked or checked
    repo_path,    \* the RepoPath the constructor yielded, if it yielded one
    check_result, \* what check_path_to_repo_path_errors said about repo_path
    \* ---- seek over RepoPath keys --------------------------------------
    keys,         \* the keys of a map, sorted, each a sequence of components
    target,       \* the path a RepoPathDescendants target wraps
    cursor,       \* position of the cursor: 1..Len(keys), or Len(keys) + 1 at the end
    spc,          \* idle, seeking or done
    \* ---- in-memory backend (FakeGitRepositoryState) --------------------
    head_contents,   \* committed text by path
    index_contents,  \* staged text by path
    statuses,        \* file status by path
    current_branch_name,  \* the name last passed to change_branch, if any
    branches,        \* the set of created branch names
    simulated_index_write_error_message,  \* set by a test to make index writes fail
    event_emitter,   \* the channel of change notifications: its state and queue
    state_lock,      \* the mutex around the state: free or held
    fpc,             \* position of the caller inside a call of the backend
    fcall,           \* the call in progress or last made, with its arguments
    fresult,         \* what the last call returned
    fhist,           \* history: state at the start of the call, notifications sent
    \* ---- library-backed backend (RealGitRepository) --------------------
    xpc,          \* position of the caller inside a call of the backend
    xcall,        \* the call in progress or last made, with its arguments
    xlog,         \* the invocations of the external tool this call made, in order
    xresult,      \* what the call returned
    git_index,    \* the index file of the repository: an entry by path
    cached_index, \* the index as the libgit2 handle last read it
    odb,          \* the object database: the ids of the blobs written
    head_tree,    \* the tree of HEAD: an entry by path
    \* ---- the mutex of a backend, with several callers of one handle ----
    handle,       \* the backend the callers share: real or fake
    mutex,        \* who holds the mutex of the handle: free, or a caller
    callers       \* per caller: the operation, the steps left, its subprocess

remoteVars == <<rpc, op, workdir, ask_pass, git_process, result, askHandle,
                childHandle, outputTaken, spawns, returns, firstReady, atPoll>>

parseVars == <<ppc, pcase, pinput, presult>>

pathVars == <<path, build, platform, rppc, repo_path, check_result>>

seekVars == <<keys, target, cursor, spc>>

fakeVars == <<head_contents, index_contents, statuses, current_branch_name, branches,
              simulated_index_write_error_message, event_emitter, state_lock,
              fpc, fcall, fresult, fhist>>

realVars == <<xpc, xcall, xlog, xresult, git_index, cached_index, odb, head_tree>>

lockVars == <<handle, mutex, callers>>

vars == <<remoteVars, parseVars, pathVars, seekVars, fakeVars, realVars, lockVars>>

\* What each part leaves alone: the variables of the other parts.
notRemote == <<parseVars, pathVars, seekVars, fakeVars, realVars, lockVars>>
notParse == <<remoteVars, pathVars, seekVars, fakeVars, realVars, lockVars>>
notPath == <<remoteVars, parseVars, seekVars, fakeVars, realVars, lockVars>>
notSeek == <<remoteVars, parseVars, pathVars, fakeVars, realVars, lockVars>>
notFake == <<remoteVars, parseVars, pathVars, seekVars, realVars, lockVars>>
notReal == <<remoteVars, parseVars, pathVars, seekVars, fakeVars, lockVars>>
notLock == <<remoteVars, parseVars, pathVars, seekVars, fakeVars, realVars>>

\* ---------------------------------------------------------------------------
\* Bounds
\* ---------------------------------------------------------------------------

\* longest stdout / stderr a subprocess writes
MaxOut == 1

\* most components in an upstream-tracking token
MaxComps == 2

\* most records in a branch listing
MaxBranches == 2

\* most characters in a path handed to a RepoPath constructor
MaxPathLen == 3

\* most components in a key or a target of a seek
MaxDepth == 2

\* most keys in a map that is searched
MaxKeys == 3

\* most path prefixes handed to status
MaxPrefixes == 2

\* capacity of the channel of change notifications
MaxQueued == 1

\* ---------------------------------------------------------------------------
\* Small helpers
\* ---------------------------------------------------------------------------

SeqsUpTo(S, n) == UNION {[1..k -> S] : k \in 0..n}

None == [some |-> FALSE]
Some(v) == [some |-> TRUE, val |-> v]

StartsWith(s, p) == Len(s) >= Len(p) /\ SubSeq(s, 1, Len(p)) = p
EndsWith(s, p) == Len(s) >= Len(p) /\ SubSeq(s, Len(s) - Len(p) + 1, Len(s)) = p

\* str::strip_prefix / str::strip_suffix
StripPrefix(s, p) == IF StartsWith(s, p) THEN Some(SubSeq(s, Len(p) + 1, Len(s))) ELSE None
StripSuffix(s, p) == IF EndsWith(s, p) THEN Some(SubSeq(s, 1, Len(s) - Len(p))) ELSE None

Matches(s, sep) == {i \in 1..(Len(s) - Len(sep) + 1) : SubSeq(s, i, i + Len(sep) - 1) = sep}
Min(S) == CHOOSE x \in S : \A y \in S : x <= y
Max(S) == CHOOSE x \in S : \A y \in S : x >= y

\* str::split(pattern): the pieces between the non-overlapping matches, left
\* to right; a text without a match is one piece.
RECURSIVE Split(_, _)
Split(s, sep) ==
    IF Matches(s, sep) = {}
    THEN <<s>>
    ELSE LET i == Min(Matches(s, sep))
         IN  <<SubSeq(s, 1, i - 1)>> \o Split(SubSeq(s, i + Len(sep), Len(s)), sep)

RECURSIVE Join(_, _)
Join(pieces, sep) ==
    IF pieces = <<>> THEN <<>>
    ELSE IF Len(pieces) = 1 THEN pieces[1]
    ELSE pieces[1] \o sep \o Join(Tail(pieces), sep)

Digits == <<"0", "1", "2", "3", "4", "5", "6", "7", "8", "9">>
IsDigit(c) == \E i \in 1..10 : Digits[i] = c
DigitValue(c) == (CHOOSE i \in 1..10 : Digits[i] = c) - 1
AllDigits(s) == \A i \in 1..Len(s) : IsDigit(s[i])

RECURSIVE StripZeros(_)
StripZeros(s) == IF Len(s) > 1 /\ s[1] = "0" THEN StripZeros(Tail(s)) ELSE s

\* a <= b for two digit texts without leading zeros
DecimalLeq(a, b) ==
    \/ Len(a) < Len(b)
    \/ /\ Len(a) = Len(b)
       /\ \/ a = b
          \/ \E i \in 1..Len(a) :
                 /\ SubSeq(a, 1, i - 1) = SubSeq(b, 1, i - 1)
                 /\ DigitValue(a[i]) < DigitValue(b[i])

RECURSIVE DecimalValue(_)
DecimalValue(s) ==
    IF s = <<>> THEN 0 ELSE 10 * DecimalValue(SubSeq(s, 1, Len(s) - 1)) + DigitValue(s[Len(s)])

RECURSIVE FormatNat(_)
FormatNat(n) == IF n < 10 THEN <<Digits[n + 1]>> ELSE FormatNat(n \div 10) \o <<Digits[(n % 10) + 1]>>
FormatInt(n) == IF n < 0 THEN <<"-">> \o FormatNat(-n) ELSE FormatNat(n)

\* ---------------------------------------------------------------------------
\* Remote-operation engine
\* ---------------------------------------------------------------------------

REMOTE_CANCELLED_BY_USER == "Operation cancelled by user"

\* The bytes a subprocess may write: an ASCII byte and a byte that is not valid
\* UTF-8 on its own.
Bytes == {"a", "xFF"}

\* String::from_utf8_lossy: every invalid byte becomes U+FFFD.
FromUtf8Lossy(bytes) ==
    [i \in 1..Len(bytes) |-> IF bytes[i] = "xFF" THEN "uFFFD" ELSE bytes[i]]

AskPassResult == {"CancelledByUser", "Timedout"}

NoProcess == [state |-> "none", code |-> 0, stdout |-> <<>>, stderr |-> <<>>]
Running == [state |-> "running", code |-> 0, stdout |-> <<>>, stderr |-> <<>>]

NoResult == [ok |-> FALSE, msg |-> <<"none", <<>>>>, stdout |-> <<>>, stderr |-> <<>>]
Err(text, tail) == [ok |-> FALSE, msg |-> <<text, tail>>, stdout |-> <<>>, stderr |-> <<>>]
Ok(out, err) == [ok |-> TRUE, msg |-> <<"", <<>>>>, stdout |-> out, stderr |-> err]

\* A variant that reports a cancellation as a timeout and a timeout as a
\* cancellation.
AskPassOutcome_Swapped(r) ==
    IF r = "CancelledByUser"
    THEN Err("Connecting to host timed out", <<>>)
    ELSE Err(REMOTE_CANCELLED_BY_USER, <<>>)

\* The first arm of select_biased!: the session's terminal state decides.
AskPassOutcome(r) ==
    IF r = "CancelledByUser"
    THEN Err(REMOTE_CANCELLED_BY_USER, <<>>)
    ELSE Err("Connecting to host timed out", <<>>)

\* A variant that ignores the exit status and always reports success.
OutputOutcome_IgnoresStatus(p) ==
    IF p.state = "ioerror"
    THEN Err("io error", <<>>)
    ELSE Ok(FromUtf8Lossy(p.stdout), FromUtf8Lossy(p.stderr))

\* The second arm of select_biased!: `output?`, then the exit status decides.
OutputOutcome(p) ==
    IF p.state = "ioerror"
    THEN Err("io error", <<>>)
    ELSE IF p.code # 0
         THEN Err("Operation failed:\n", FromUtf8Lossy(p.stderr))
         ELSE Ok(FromUtf8Lossy(p.stdout), FromUtf8Lossy(p.stderr))

\* What is ready at the instant the engine polls the session.
Snapshot == [ask |-> ask_pass # "pending", proc |-> git_process.state # "running"]

\* Dropping a smol::process::Child does not kill the process: no caller sets
\* kill_on_drop, so a running process stays running with no owner.
DropChild(p) == p

RemoteIdle ==
    /\ rpc = "idle"
    /\ op = "none"
    /\ ask_pass = "pending"
    /\ git_process = NoProcess
    /\ result = NoResult
    /\ askHandle = "held"
    /\ childHandle = "none"
    /\ outputTaken = FALSE
    /\ spawns = 0
    /\ returns = 0
    /\ firstReady = "none"
    /\ atPoll = [ask |-> FALSE, proc |-> FALSE]

RemoteInit == RemoteIdle /\ workdir \in BOOLEAN

\* push / pull / fetch up to the call of run_remote_command:
\* working_directory()?, then command.spawn()?.
Call(o, spawnOk) ==
    /\ rpc = "idle"
    /\ op' = o
    /\ IF ~workdir
       THEN /\ result' = Err("failed to read git work directory", <<>>)
            /\ rpc' = "done"
            /\ askHandle' = "dropped"
            /\ returns' = returns + 1
            /\ UNCHANGED <<git_process, childHandle, spawns>>
       ELSE IF ~spawnOk
       THEN /\ result' = Err("spawn failed", <<>>)
            /\ rpc' = "done"
            /\ askHandle' = "dropped"
            /\ returns' = returns + 1
            /\ UNCHANGED <<git_process, childHandle, spawns>>
       ELSE /\ git_process' = Running
            /\ childHandle' = "held"
            /\ spawns' = spawns + 1
            /\ rpc' = "pollA"
            /\ UNCHANGED <<result, askHandle, returns>>
    /\ UNCHANGED <<workdir, ask_pass, outputTaken, firstReady, atPoll>>

\* A variant of the select that is not biased towards the session: when the
\* subprocess is ready it is taken, whatever the session's state.
PollA_Unbiased ==
    /\ rpc = "pollA"
    /\ atPoll' = Snapshot
    /\ IF git_process.state \in {"exited", "ioerror"}
       THEN /\ result' = OutputOutcome(git_process)
            /\ outputTaken' = (git_process.state = "exited")
            /\ rpc' = "done"
            /\ returns' = returns + 1
            /\ askHandle' = "dropped"
            /\ childHandle' = "dropped"
            /\ UNCHANGED git_process
       ELSE IF ask_pass # "pending"
       THEN /\ result' = AskPassOutcome(ask_pass)
            /\ rpc' = "done"
            /\ returns' = returns + 1
            /\ askHandle' = "dropped"
            /\ childHandle' = "dropped"
            /\ git_process' = DropChild(git_process)
            /\ UNCHANGED outputTaken
       ELSE /\ rpc' = "pollB"
            /\ UNCHANGED <<result, returns, askHandle, childHandle, git_process, outputTaken>>
    /\ UNCHANGED <<op, workdir, ask_pass, spawns, firstReady>>

\* select_biased! polls ask_pass.run() first.
PollA ==
    /\ rpc = "pollA"
    /\ atPoll' = Snapshot
    /\ IF ask_pass # "pending"
       THEN /\ result' = AskPassOutcome(ask_pass)
            /\ rpc' = "done"
            /\ returns' = returns + 1
            /\ askHandle' = "dropped"
            /\ childHandle' = "dropped"
            /\ git_process' = DropChild(git_process)
       ELSE /\ rpc' = "pollB"
            /\ UNCHANGED <<result, returns, askHandle, childHandle, git_process>>
    /\ UNCHANGED <<op, workdir, ask_pass, outputTaken, spawns, firstReady>>

\* A variant that spawns the subprocess again after a non-zero exit.
PollB_Retries ==
    /\ rpc = "pollB"
    /\ IF git_process.state = "exited" /\ git_process.code # 0 /\ spawns < 2
       THEN /\ git_process' = Running
            /\ spawns' = spawns + 1
            /\ rpc' = "pollA"
            /\ UNCHANGED <<result, outputTaken, returns, askHandle, childHandle>>
       ELSE IF git_process.state \in {"exited", "ioerror"}
       THEN /\ result' = OutputOutcome(git_process)
            /\ outputTaken' = (git_process.state = "exited")
            /\ rpc' = "done"
            /\ returns' = returns + 1
            /\ askHandle' = "dropped"
            /\ childHandle' = "dropped"
            /\ UNCHANGED <<git_process, spawns>>
       ELSE /\ rpc' = "parked"
            /\ UNCHANGED <<result, outputTaken, returns, askHandle, childHandle,
                           git_process, spawns>>
    /\ UNCHANGED <<op, workdir, ask_pass, firstReady, atPoll>>

\* ... and git_process.output() second, only when the session was pending.
PollB ==
    /\ rpc = "pollB"
    /\ IF git_process.state \in {"exited", "ioerror"}
       THEN /\ result' = OutputOutcome(git_process)
            /\ outputTaken' = (git_process.state = "exited")
            /\ rpc' = "done"
            /\ returns' = returns + 1
            /\ askHandle' = "dropped"
            /\ childHandle' = "dropped"
       ELSE /\ rpc' = "parked"
            /\ UNCHANGED <<result, outputTaken, returns, askHandle, childHandle>>
    /\ UNCHANGED <<op, workdir, ask_pass, git_process, spawns, firstReady, atPoll>>

\* A variant whose parked thread is never woken.
Wake_Sleeps ==
    /\ rpc = "parked"
    /\ UNCHANGED <<rpc, op, workdir, ask_pass, git_process, result, askHandle,
                   childHandle, outputTaken, spawns, returns, firstReady, atPoll>>

\* smol::block_on parks the thread until a waker fires, then polls again.
Wake ==
    /\ rpc = "parked"
    /\ rpc' = "pollA"
    /\ UNCHANGED <<op, workdir, ask_pass, git_process, result, askHandle,
                   childHandle, outputTaken, spawns, returns, firstReady, atPoll>>

\* Environment: the credential session reaches a terminal state.
AskPassResolves(r) ==
    /\ rpc \in {"pollA", "pollB", "parked"}
    /\ ask_pass = "pending"
    /\ ask_pass' = r
    /\ firstReady' = IF firstReady = "none" THEN "askpass" ELSE firstReady
    /\ UNCHANGED <<rpc, op, workdir, git_process, result, askHandle,
                   childHandle, outputTaken, spawns, returns, atPoll>>

\* Environment: the subprocess exits; its output is complete.
ProcessExits(code, out, err) ==
    /\ git_process.state = "running"
    /\ git_process' = [state |-> "exited", code |-> code, stdout |-> out, stderr |-> err]
    /\ firstReady' = IF firstReady = "none" THEN "process" ELSE firstReady
    /\ UNCHANGED <<rpc, op, workdir, ask_pass, result, askHandle,
                   childHandle, outputTaken, spawns, returns, atPoll>>

\* Environment: collecting the output fails with an io::Error.
OutputFails ==
    /\ git_process.state = "running"
    /\ childHandle = "held"
    /\ git_process' = [git_process EXCEPT !.state = "ioerror"]
    /\ firstReady' = IF firstReady = "none" THEN "process" ELSE firstReady
    /\ UNCHANGED <<rpc, op, workdir, ask_pass, result, askHandle,
                   childHandle, outputTaken, spawns, returns, atPoll>>

RemoteNext ==
    \/ \E o \in {"push", "pull", "fetch"}, spawnOk \in BOOLEAN :
           Call(o, spawnOk) /\ UNCHANGED notRemote
    \/ PollA /\ UNCHANGED notRemote
    \/ PollB /\ UNCHANGED notRemote
    \/ Wake /\ UNCHANGED notRemote
    \/ \E r \in AskPassResult : AskPassResolves(r) /\ UNCHANGED notRemote
    \/ \E code \in {0, 1}, out \in SeqsUpTo(Bytes, MaxOut), err \in SeqsUpTo(Bytes, MaxOut) :
           ProcessExits(code, out, err) /\ UNCHANGED notRemote
    \/ OutputFails /\ UNCHANGED notRemote

\* ---------------------------------------------------------------------------
\* Structured-output parsers
\* ---------------------------------------------------------------------------

OkVal(v) == [ok |-> TRUE, val |-> v]
ErrVal(m) == [ok |-> FALSE, err |-> m]

NUL == "NUL"
LF == "\n"
GONE == <<"g", "o", "n", "e">>
AHEAD_ == <<"a", "h", "e", "a", "d", " ">>
BEHIND_ == <<"b", "e", "h", "i", "n", "d", " ">>
REFS_HEADS == <<"r", "e", "f", "s", "/", "h", "e", "a", "d", "s", "/">>
U32_MAX == <<"4", "2", "9", "4", "9", "6", "7", "2", "9", "5">>
I64_MAX == <<"9", "2", "2", "3", "3", "7", "2", "0", "3", "6", "8", "5", "4", "7", "7", "5", "8", "0", "7">>
I64_MIN_ABS == <<"9", "2", "2", "3", "3", "7", "2", "0", "3", "6", "8", "5", "4", "7", "7", "5", "8", "0", "8">>

\* str::parse::<u32>: an optional `+`, then one or more digits, within range.
ParseU32(s) ==
    LET d == IF s # <<>> /\ s[1] = "+" THEN Tail(s) ELSE s
    IN  IF s = <<>> THEN ErrVal("cannot parse integer from empty string")
        ELSE IF d = <<>> \/ ~AllDigits(d) THEN ErrVal("invalid digit found in string")
        ELSE IF ~DecimalLeq(StripZeros(d), U32_MAX) THEN ErrVal("number too large")
        ELSE OkVal(DecimalValue(d))

\* str::parse::<i64>: an optional `+` or `-`, then one or more digits, within range.
ParseI64(s) ==
    LET neg == s # <<>> /\ s[1] = "-"
        d == IF s # <<>> /\ s[1] \in {"+", "-"} THEN Tail(s) ELSE s
    IN  IF s = <<>> THEN ErrVal("cannot parse integer from empty string")
        ELSE IF d = <<>> \/ ~AllDigits(d) THEN ErrVal("invalid digit found in string")
        ELSE IF ~DecimalLeq(StripZeros(d), IF neg THEN I64_MIN_ABS ELSE I64_MAX)
             THEN ErrVal("number out of range")
        ELSE OkVal(IF neg THEN 0 - DecimalValue(d) ELSE DecimalValue(d))

Gone == [tag |-> "Gone"]
Tracked(a, b) == [tag |-> "Tracked", ahead |-> a, behind |-> b]

\* The state of the loop over the components: the counts so far, the value
\* returned early, if any.
TrackStart == [returned |-> FALSE, ahead |-> 0, behind |-> 0]

\* A variant that goes on with the components after a `gone`.
TrackStep_KeepsGoing(st, component) ==
    LET from == IF st.returned /\ st.value.ok THEN TrackStart ELSE st
        a == StripPrefix(component, AHEAD_)
        b == StripPrefix(component, BEHIND_)
        an == IF a.some THEN ParseU32(a.val) ELSE OkVal(from.ahead)
        bn == IF b.some THEN ParseU32(b.val) ELSE OkVal(from.behind)
    IN  IF from.returned THEN from
        ELSE IF component = GONE THEN [returned |-> TRUE, value |-> OkVal(Gone)]
        ELSE IF ~an.ok THEN [returned |-> TRUE, value |-> an]
        ELSE IF ~bn.ok THEN [returned |-> TRUE, value |-> bn]
        ELSE [returned |-> FALSE, ahead |-> an.val, behind |-> bn.val]

\* A variant that rejects a component it does not know.
TrackStep_Strict(st, component) ==
    LET a == StripPrefix(component, AHEAD_)
        b == StripPrefix(component, BEHIND_)
        an == IF a.some THEN ParseU32(a.val) ELSE OkVal(st.ahead)
        bn == IF b.some THEN ParseU32(b.val) ELSE OkVal(st.behind)
    IN  IF st.returned THEN st
        ELSE IF component = GONE THEN [returned |-> TRUE, value |-> OkVal(Gone)]
        ELSE IF ~a.some /\ ~b.some
             THEN [returned |-> TRUE, value |-> ErrVal("unknown component")]
        ELSE IF ~an.ok THEN [returned |-> TRUE, value |-> an]
        ELSE IF ~bn.ok THEN [returned |-> TRUE, value |-> bn]
        ELSE [returned |-> FALSE, ahead |-> an.val, behind |-> bn.val]

\* One iteration of the loop over the components of the token.
TrackStep(st, component) ==
    LET a == StripPrefix(component, AHEAD_)
        b == StripPrefix(component, BEHIND_)
        an == IF a.some THEN ParseU32(a.val) ELSE OkVal(st.ahead)
        bn == IF b.some THEN ParseU32(b.val) ELSE OkVal(st.behind)
    IN  IF st.returned THEN st
        ELSE IF component = GONE THEN [returned |-> TRUE, value |-> OkVal(Gone)]
        ELSE IF ~an.ok THEN [returned |-> TRUE, value |-> an]
        ELSE IF ~bn.ok THEN [returned |-> TRUE, value |-> bn]
        ELSE [returned |-> FALSE, ahead |-> an.val, behind |-> bn.val]

RECURSIVE TrackLoop(_, _)
TrackLoop(st, components) ==
    IF components = <<>> THEN st
    ELSE TrackLoop(TrackStep(st, Head(components)), Tail(components))

\* A variant that takes the brackets off when they are there and accepts a
\* token without them.
ParseUpstreamTrack_Lenient(upstream_track) ==
    LET p == StripPrefix(upstream_track, <<"[">>)
        inner == IF p.some THEN p.val ELSE upstream_track
        q == StripSuffix(inner, <<"]">>)
        body == IF q.some THEN q.val ELSE inner
        st == TrackLoop(TrackStart, Split(body, <<",", " ">>))
    IN  IF upstream_track = <<>> THEN OkVal(Tracked(0, 0))
        ELSE IF st.returned THEN st.value
        ELSE OkVal(Tracked(st.ahead, st.behind))

\* The token of %(upstream:track): empty, or a bracketed list of components.
ParseUpstreamTrack(upstream_track) ==
    LET p == StripPrefix(upstream_track, <<"[">>)
        q == IF p.some THEN StripSuffix(p.val, <<"]">>) ELSE None
        st == TrackLoop(TrackStart, Split(q.val, <<",", " ">>))
    IN  IF upstream_track = <<>> THEN OkVal(Tracked(0, 0))
        ELSE IF ~p.some THEN ErrVal("missing [")
        ELSE IF ~q.some THEN ErrVal("missing [")
        ELSE IF st.returned THEN st.value
        ELSE OkVal(Tracked(st.ahead, st.behind))

\* One record of the listing: the eight NUL-separated fields, in order.
ParseBranchLine(line) ==
    LET fields == Split(line, <<NUL>>)
        n == Len(fields)
        ref_name == StripPrefix(fields[4], REFS_HEADS)
        upstream_tracking == ParseUpstreamTrack(fields[6])
        commiterdate == ParseI64(fields[7])
    IN  IF n < 1 THEN ErrVal("no HEAD")
        ELSE IF n < 2 THEN ErrVal("no objectname")
        ELSE IF n < 3 THEN ErrVal("no parent")
        ELSE IF n < 4 THEN ErrVal("no refname")
        ELSE IF ~ref_name.some THEN ErrVal("unexpected format for refname")
        ELSE IF n < 5 THEN ErrVal("no upstream")
        ELSE IF n < 6 THEN ErrVal("no upstream:track")
        ELSE IF ~upstream_tracking.ok THEN upstream_tracking
        ELSE IF n < 7 THEN ErrVal("no committerdate")
        ELSE IF ~commiterdate.ok THEN commiterdate
        ELSE IF n < 8 THEN ErrVal("no contents:subject")
        ELSE OkVal([is_head |-> fields[1] = <<"*">>,
                    name |-> ref_name.val,
                    most_recent_commit |->
                        Some([sha |-> fields[2],
                              subject |-> fields[8],
                              commit_timestamp |-> commiterdate.val,
                              has_parent |-> fields[3] # <<>>]),
                    upstream |->
                        IF fields[5] = <<>>
                        THEN None
                        ELSE Some([ref_name |-> fields[5],
                                   tracking |-> upstream_tracking.val])])

\* A variant that parses an empty line as a record.
BranchStep_KeepsEmpty(acc, line) ==
    LET r == ParseBranchLine(line)
    IN  IF ~acc.ok THEN acc
        ELSE IF ~r.ok THEN r
        ELSE OkVal(Append(acc.val, r.val))

\* A variant that skips a record that does not parse and goes on.
BranchStep_SkipsBad(acc, line) ==
    LET r == ParseBranchLine(line)
    IN  IF ~acc.ok THEN acc
        ELSE IF line = <<>> THEN acc
        ELSE IF ~r.ok THEN acc
        ELSE OkVal(Append(acc.val, r.val))

\* One iteration of the loop over the lines: an empty line is skipped, a
\* record that does not parse ends the call with its error.
BranchStep(acc, line) ==
    LET r == ParseBranchLine(line)
    IN  IF ~acc.ok THEN acc
        ELSE IF line = <<>> THEN acc
        ELSE IF ~r.ok THEN r
        ELSE OkVal(Append(acc.val, r.val))

RECURSIVE BranchLoop(_, _)
BranchLoop(acc, lines) ==
    IF lines = <<>> THEN acc
    ELSE BranchLoop(BranchStep(acc, Head(lines)), Tail(lines))

ParseBranchInput(input) == BranchLoop(OkVal(<<>>), Split(input, <<LF>>))

\* ---- the inputs the parsers are given ------------------------------------

\* A component of a tracking token, with what it was built from.
CountComponent(kind, n) ==
    [kind |-> kind, n |-> n,
     text |-> (IF kind = "ahead" THEN AHEAD_ ELSE BEHIND_) \o FormatNat(n)]
OtherComponent(text) == [kind |-> "other", n |-> 0, text |-> text]

TrackComponents ==
    { [kind |-> "gone", n |-> 0, text |-> GONE],
      CountComponent("ahead", 2),
      CountComponent("ahead", 7),
      CountComponent("behind", 1),
      OtherComponent(<<"f", "o", "o">>),
      OtherComponent(<<>>),
      OtherComponent(<<"a", "h", "e", "a", "d">>),
      OtherComponent(AHEAD_ \o <<"x">>),
      OtherComponent(AHEAD_ \o <<"+", "3">>),
      OtherComponent(BEHIND_ \o <<"9", "9", "9", "9", "9", "9", "9", "9", "9", "9", "9">>) }

TrackStyles == {"brackets", "noOpen", "noClose", "bare"}

\* git's %(upstream:track): the components joined by ", " between brackets.
TrackToken(components, style) ==
    LET body == Join([i \in 1..Len(components) |-> components[i].text], <<",", " ">>)
    IN  CASE style = "brackets" -> <<"[">> \o body \o <<"]">>
          [] style = "noOpen" -> body \o <<"]">>
          [] style = "noClose" -> <<"[">> \o body
          [] OTHER -> body

FormatTrack(tracking) ==
    IF tracking.tag = "Gone" THEN TrackToken(<<[text |-> GONE]>>, "brackets")
    ELSE IF tracking.ahead = 0 /\ tracking.behind = 0 THEN <<>>
    ELSE IF tracking.behind = 0
         THEN TrackToken(<<CountComponent("ahead", tracking.ahead)>>, "brackets")
    ELSE IF tracking.ahead = 0
         THEN TrackToken(<<CountComponent("behind", tracking.behind)>>, "brackets")
    ELSE TrackToken(<<CountComponent("ahead", tracking.ahead),
                      CountComponent("behind", tracking.behind)>>, "brackets")

Branch(is_head, name, upstream, sha, has_parent, ts, subject) ==
    [is_head |-> is_head,
     name |-> name,
     most_recent_commit |->
         Some([sha |-> sha, subject |-> subject, commit_timestamp |-> ts,
               has_parent |-> has_parent]),
     upstream |-> upstream]

Upstream(ref_name, tracking) == Some([ref_name |-> ref_name, tracking |-> tracking])

\* Branches as `git for-each-ref` lists them: each has a commit, and an
\* upstream, when present, has a non-empty ref name.
BranchSamples ==
    LET m == <<"m">>
        fx == <<"f", "/", "x">>
        up == <<"r", "/", "o", "/", "m">>
        s1 == <<"a", "b">>
        s2 == <<"c", "d">>
        subj == <<"s", " ", "p">>
    IN  { Branch(TRUE, m, Upstream(up, Tracked(0, 0)), s1, FALSE, 1733187470, subj),
          Branch(FALSE, fx, None, s2, TRUE, 0, <<>>),
          Branch(FALSE, m, Upstream(up, Gone), s1, TRUE, 5, <<"s">>),
          Branch(TRUE, fx, Upstream(up, Tracked(2, 1)), s2, FALSE, 0, <<>>),
          Branch(FALSE, m, Upstream(up, Tracked(2, 0)), s2, TRUE, 0 - 1, subj),
          Branch(FALSE, fx, Upstream(up, Tracked(0, 1)), s1, FALSE, 12, <<"s">>),
          Branch(TRUE, m, None, s1, TRUE, 1733187470, subj),
          Branch(FALSE, fx, Upstream(fx, Tracked(7, 7)), s2, TRUE, 30, <<>>) }

\* The eight fields of the record git writes for a branch:
\* %(HEAD) %(objectname) %(parent) %(refname) %(upstream) %(upstream:track)
\* %(committerdate:unix) %(contents:subject).
BranchFields(b) ==
    LET c == b.most_recent_commit.val
    IN  << IF b.is_head THEN <<"*">> ELSE <<" ">>,
           c.sha,
           IF c.has_parent THEN <<"p", "p">> ELSE <<>>,
           REFS_HEADS \o b.name,
           IF b.upstream.some THEN b.upstream.val.ref_name ELSE <<>>,
           IF b.upstream.some THEN FormatTrack(b.upstream.val.tracking) ELSE <<>>,
           FormatInt(c.commit_timestamp),
           c.subject >>

NoDefect == [kind |-> "none", at |-> 0, keep |-> 8]

\* The ways one record of a listing can be malformed: fewer than eight fields,
\* a date that is no integer, a ref name without refs/heads/, a tracking token
\* without brackets.
Defects(n) ==
    {NoDefect}
    \cup [kind : {"missing"}, at : 1..n, keep : 1..7]
    \cup [kind : {"baddate", "noprefix", "badtrack"}, at : 1..n, keep : {8}]

DefectiveFields(fields, kind, keep) ==
    CASE kind = "missing" -> SubSeq(fields, 1, keep)
      [] kind = "baddate" -> [fields EXCEPT ![7] = <<"1", "2", "a">>]
      [] kind = "noprefix" -> [fields EXCEPT ![4] = <<"r", "e", "f", "s", "/", "t", "a", "g", "s", "/", "m">>]
      [] kind = "badtrack" -> [fields EXCEPT ![6] = GONE]
      [] OTHER -> fields

RECURSIVE Concat(_)
Concat(pieces) == IF pieces = <<>> THEN <<>> ELSE Head(pieces) \o Concat(Tail(pieces))

\* One record per line, the fields separated by NUL.
BranchListing(listed, defect) ==
    Concat([i \in 1..Len(listed) |->
        Join(IF defect.at = i
             THEN DefectiveFields(BranchFields(listed[i]), defect.kind, defect.keep)
             ELSE BranchFields(listed[i]), <<NUL>>) \o <<LF>>])

ParseCases ==
    [fn : {"track"}, components : SeqsUpTo(TrackComponents, MaxComps), style : TrackStyles]
    \cup UNION {[fn : {"branches"}, branches : {bs}, defect : Defects(Len(bs))] :
                   bs \in SeqsUpTo(BranchSamples, MaxBranches)}

BuildInput(c) ==
    IF c.fn = "track"
    THEN TrackToken(c.components, c.style)
    ELSE BranchListing(c.branches, c.defect)

NotParsed == [ok |-> FALSE, err |-> "not parsed"]

ParseIdle ==
    /\ ppc = "idle"
    /\ pcase = [fn |-> "none"]
    /\ pinput = <<>>
    /\ presult = NotParsed

ParseInit ==
    /\ ppc = "ready"
    /\ pcase \in ParseCases
    /\ pinput = BuildInput(pcase)
    /\ presult = NotParsed

RunParseUpstreamTrack ==
    /\ ppc = "ready"
    /\ pcase.fn = "track"
    /\ presult' = ParseUpstreamTrack(pinput)
    /\ ppc' = "done"
    /\ UNCHANGED <<pcase, pinput>>

RunParseBranchInput ==
    /\ ppc = "ready"
    /\ pcase.fn = "branches"
    /\ presult' = ParseBranchInput(pinput)
    /\ ppc' = "done"
    /\ UNCHANGED <<pcase, pinput>>

ParseNext ==
    \/ RunParseUpstreamTrack /\ UNCHANGED notParse
    \/ RunParseBranchInput /\ UNCHANGED notParse

\* ---------------------------------------------------------------------------
\* Properties of the remote-operation engine
\* ---------------------------------------------------------------------------

IsUserCancelled(r) == ~r.ok /\ r.msg = <<REMOTE_CANCELLED_BY_USER, <<>>>>
IsTimedOut(r) == ~r.ok /\ r.msg = <<"Connecting to host timed out", <<>>>>
IsSubprocessFailure(r) == ~r.ok /\ r.msg[1] = "Operation failed:\n"
IsIoFailure(r) == ~r.ok /\ r.msg[1] = "io error"
IsSuccess(r) == r.ok

EngineReturned == rpc = "done" /\ spawns > 0

SessionOutcome ==
    /\ ask_pass = "CancelledByUser" => IsUserCancelled(result)
    /\ ask_pass = "Timedout" => IsTimedOut(result)
    /\ result.stdout = <<>>
    /\ result.stderr = <<>>
    /\ ~outputTaken

SubprocessOutcome ==
    IF git_process.code = 0
    THEN /\ IsSuccess(result)
         /\ result.stdout = FromUtf8Lossy(git_process.stdout)
         /\ result.stderr = FromUtf8Lossy(git_process.stderr)
    ELSE /\ IsSubprocessFailure(result)
         /\ result.msg[2] = FromUtf8Lossy(git_process.stderr)

\* C1: whenever, at the engine's poll of the credential session, the session
\* has resolved and the subprocess's output / exit is not yet available, the
\* call returns a failure determined only by the session's terminal state (the
\* fixed string REMOTE_CANCELLED_BY_USER for CancelledByUser, a different,
\* timeout error for Timedout) and the subprocess's stdout / stderr are never
\* consumed or returned.
C1_SessionFirst ==
    (EngineReturned /\ atPoll.ask /\ ~atPoll.proc) => SessionOutcome

C1_Witness ==
    /\ EngineReturned
    /\ firstReady = "askpass"
    /\ atPoll.ask
    /\ ~atPoll.proc
    /\ ask_pass = "CancelledByUser"
    /\ git_process.state = "running"

\* C2: whenever the subprocess has completed and the credential session was
\* still unresolved at the engine's poll of it, the result is a success
\* carrying exactly the captured stdout and stderr (as from_utf8_lossy decodes
\* them) if and only if the exit status is zero, and otherwise a failure
\* carrying the captured stderr.
C2_SubprocessFirst ==
    (EngineReturned /\ ~atPoll.ask /\ git_process.state = "exited")
        => SubprocessOutcome

C2_Witness ==
    /\ EngineReturned
    /\ firstReady = "process"
    /\ ask_pass = "pending"
    /\ ~atPoll.ask
    /\ git_process.state = "exited"
    /\ git_process.code = 0
    /\ git_process.stdout # <<>>
    /\ result.ok

\* C3: when the session's terminal state and the subprocess's completion are
\* both ready at the poll, the outcome is the session's (cancellation or
\* timeout), never the subprocess's, even if the subprocess exited with zero.
C3_SessionWinsTie ==
    (EngineReturned /\ atPoll.ask /\ atPoll.proc)
        => /\ ~IsSuccess(result)
           /\ ~IsSubprocessFailure(result)
           /\ ~IsIoFailure(result)
           /\ IsUserCancelled(result) \/ IsTimedOut(result)
           /\ IsUserCancelled(result) <=> ask_pass = "CancelledByUser"

C3_Witness ==
    /\ EngineReturned
    /\ atPoll.ask
    /\ atPoll.proc
    /\ git_process.state = "exited"
    /\ git_process.code = 0

\* C4 (as claimed): every invocation of the engine produces exactly one outcome,
\* one of user-cancelled, timed-out, subprocess failure or subprocess success,
\* and the subprocess is spawned once.
C4_AsClaimed ==
    /\ rpc \in {"pollA", "pollB", "parked"} => returns = 0 /\ spawns = 1
    /\ EngineReturned =>
           /\ returns = 1
           /\ spawns = 1
           /\ \/ IsUserCancelled(result)
              \/ IsTimedOut(result)
              \/ IsSubprocessFailure(result)
              \/ IsSuccess(result)

\* C4 (amended): every invocation of the engine produces exactly one outcome,
\* one of user-cancelled failure, timed-out failure, subprocess failure
\* (non-zero exit, carrying stderr), subprocess success, or the I/O error of
\* collecting the subprocess's output; the subprocess is spawned once and
\* never spawned or awaited again after a failure.
C4_OneOutcome ==
    /\ rpc \in {"pollA", "pollB", "parked"} => returns = 0 /\ spawns = 1
    /\ EngineReturned =>
           /\ returns = 1
           /\ spawns = 1
           /\ Cardinality({k \in 1..5 :
                  \/ k = 1 /\ IsUserCancelled(result)
                  \/ k = 2 /\ IsTimedOut(result)
                  \/ k = 3 /\ IsSubprocessFailure(result)
                  \/ k = 4 /\ IsSuccess(result)
                  \/ k = 5 /\ IsIoFailure(result)}) = 1
           /\ IsSubprocessFailure(result) =>
                  /\ git_process.state = "exited"
                  /\ git_process.code # 0
                  /\ result.msg[2] = FromUtf8Lossy(git_process.stderr)
           /\ IsSuccess(result) =>
                  git_process.state = "exited" /\ git_process.code = 0

C4_Witness ==
    /\ EngineReturned
    /\ IsSubprocessFailure(result)
    /\ git_process.stderr # <<>>

\* C5 (as claimed): when the call returns, both handles have been released and
\* no subprocess is left running without an owner.
C5_AsClaimed ==
    EngineReturned =>
        /\ askHandle = "dropped"
        /\ childHandle = "dropped"
        /\ git_process.state # "running"

\* ---------------------------------------------------------------------------
\* RepoPath: the constructors and the validation of a repository path
\* ---------------------------------------------------------------------------

\* The characters of a path: the separator, a dot, a file-name character and
\* a drive designator (one file-name character on unix, a prefix on windows).
PathChars == {"/", ".", "a", "C:"}

Paths == SeqsUpTo(PathChars, MaxPathLen)

\* std::path::Path::components().next(): the kind of the first component.
FirstComponent(p, plat) ==
    LET first == Split(p, <<"/">>)[1]
    IN  IF p = <<>> THEN "None"
        ELSE IF plat = "windows" /\ Head(p) = "C:" THEN "Prefix"
        ELSE IF Head(p) = "/" THEN "RootDir"
        ELSE IF first = <<".">> THEN "CurDir"
        ELSE IF first = <<".", ".">> THEN "ParentDir"
        ELSE "Normal"

\* std::path::Path::has_root, after the prefix if there is one.
HasRoot(p, plat) ==
    IF plat = "windows" /\ p # <<>> /\ Head(p) = "C:"
    THEN Len(p) >= 2 /\ p[2] = "/"
    ELSE p # <<>> /\ Head(p) = "/"

\* std::path::Path::is_absolute: on windows a path needs a prefix and a root.
IsAbsolute(p, plat) ==
    IF plat = "windows"
    THEN p # <<>> /\ Head(p) = "C:" /\ HasRoot(p, plat)
    ELSE HasRoot(p, plat)

IsRelative(p, plat) == ~IsAbsolute(p, plat)

\* check_path_to_repo_path_errors: the one validation of a repository path.
CheckPathToRepoPathErrors(relative_file_path, plat) ==
    LET c == FirstComponent(relative_file_path, plat)
    IN  IF c = "None" THEN ErrVal("repo path should not be empty")
        ELSE IF c = "Prefix"
             THEN ErrVal("repo path should be relative, not a windows prefix")
        ELSE IF c = "RootDir" THEN ErrVal("repo path should be relative")
        ELSE IF c = "CurDir" THEN ErrVal("repo path should not start with .")
        ELSE IF c = "ParentDir" THEN ErrVal("repo path should not start with ..")
        ELSE OkVal("unit")

NotChecked == ErrVal("not checked")

PathIdle ==
    /\ path = <<>>
    /\ build = "release"
    /\ platform = "unix"
    /\ rppc = "idle"
    /\ repo_path = None
    /\ check_result = NotChecked

PathInit ==
    /\ path \in Paths
    /\ build \in {"debug", "release"}
    /\ platform \in {"unix", "windows"}
    /\ rppc = "start"
    /\ repo_path = None
    /\ check_result = NotChecked

\* debug_assert!(path.is_relative(), ..) then RepoPath(path.into()): the
\* assertion is compiled only into a debug build, where it panics.
AssertingConstructor ==
    /\ rppc = "start"
    /\ IF build = "debug" /\ ~IsRelative(path, platform)
       THEN /\ rppc' = "panicked"
            /\ repo_path' = None
       ELSE /\ rppc' = "constructed"
            /\ repo_path' = Some(path)
    /\ UNCHANGED <<path, build, platform, check_result>>

\* RepoPath::new(path: PathBuf)
RepoPathNew == AssertingConstructor

\* RepoPath::from_str(path: &str)
RepoPathFromStr == AssertingConstructor

\* impl From<&Path>, From<PathBuf>: RepoPath::new(value)
RepoPathFromPath == RepoPathNew

\* impl From<&str>: Self::from_str(value)
RepoPathFromStrRef == RepoPathFromStr

\* impl From<Arc<Path>>: RepoPath(value), with no assertion
RepoPathFromArcPath ==
    /\ rppc = "start"
    /\ rppc' = "constructed"
    /\ repo_path' = Some(path)
    /\ UNCHANGED <<path, build, platform, check_result>>

\* impl Default, WORK_DIRECTORY_REPO_PATH: the empty path, whatever was given
RepoPathDefault ==
    /\ rppc = "start"
    /\ rppc' = "constructed"
    /\ repo_path' = Some(<<>>)
    /\ UNCHANGED <<path, build, platform, check_result>>

\* load_index_text validates the RepoPath it was given before the index lookup.
CheckRepoPath ==
    /\ rppc = "constructed"
    /\ rppc' = "checked"
    /\ check_result' = CheckPathToRepoPathErrors(repo_path.val, platform)
    /\ UNCHANGED <<path, build, platform, repo_path>>

PathNext ==
    \/ RepoPathNew /\ UNCHANGED notPath
    \/ RepoPathFromStr /\ UNCHANGED notPath
    \/ RepoPathFromPath /\ UNCHANGED notPath
    \/ RepoPathFromStrRef /\ UNCHANGED notPath
    \/ RepoPathFromArcPath /\ UNCHANGED notPath
    \/ RepoPathDefault /\ UNCHANGED notPath
    \/ CheckRepoPath /\ UNCHANGED notPath

\* ---------------------------------------------------------------------------
\* RepoPathDescendants: seeking in a map keyed by RepoPath
\* ---------------------------------------------------------------------------

\* The names a path component can have, in byte order.
ComponentNames == <<"a", "b">>

ComponentRank(c) == CHOOSE i \in 1..Len(ComponentNames) : ComponentNames[i] = c

\* A path as std::path reads it: the sequence of its components.
ComponentPaths == SeqsUpTo({ComponentNames[i] : i \in 1..Len(ComponentNames)}, MaxDepth)

\* Path::starts_with: base is a prefix of p, component by component.
PathStartsWith(p, base) == StartsWith(p, base)

\* Path::cmp (derived Ord of RepoPath): lexicographic over the components.
RECURSIVE PathCmp(_, _)
PathCmp(a, b) ==
    IF a = <<>> /\ b = <<>> THEN "Equal"
    ELSE IF a = <<>> THEN "Less"
    ELSE IF b = <<>> THEN "Greater"
    ELSE IF ComponentRank(Head(a)) < ComponentRank(Head(b)) THEN "Less"
    ELSE IF ComponentRank(Head(a)) > ComponentRank(Head(b)) THEN "Greater"
    ELSE PathCmp(Tail(a), Tail(b))

\* A variant that compares the key with the target in the fallback.
CmpCursor_Reversed(self, key) ==
    IF PathStartsWith(key, self) THEN "Greater" ELSE PathCmp(key, self)

\* RepoPathDescendants(self).cmp_cursor(key)
CmpCursor(self, key) ==
    IF PathStartsWith(key, self) THEN "Greater" ELSE PathCmp(self, key)

IsSortedKeys(ks) ==
    \A i \in 1..Len(ks) : \A j \in 1..Len(ks) : i < j => PathCmp(ks[i], ks[j]) = "Less"

\* The maps a seek runs over: distinct keys in ascending order.
SortedKeySeqs == {ks \in SeqsUpTo(ComponentPaths, MaxKeys) : IsSortedKeys(ks)}

SeekIdle ==
    /\ keys = <<>>
    /\ target = <<>>
    /\ cursor = 1
    /\ spc = "idle"

SeekInit ==
    /\ keys \in SortedKeySeqs
    /\ target \in ComponentPaths
    /\ cursor = 1
    /\ spc = "seeking"

\* A seek moves the cursor forward while the target compares Greater than the
\* key under the cursor.
SeekAdvance ==
    /\ spc = "seeking"
    /\ cursor <= Len(keys)
    /\ CmpCursor(target, keys[cursor]) = "Greater"
    /\ cursor' = cursor + 1
    /\ UNCHANGED <<keys, target, spc>>

\* The seek stops at the end, or at the first key the target is not Greater than.
SeekStop ==
    /\ spc = "seeking"
    /\ IF cursor > Len(keys) THEN TRUE ELSE CmpCursor(target, keys[cursor]) # "Greater"
    /\ spc' = "done"
    /\ UNCHANGED <<keys, target, cursor>>

SeekNext ==
    \/ SeekAdvance /\ UNCHANGED notSeek
    \/ SeekStop /\ UNCHANGED notSeek

\* ---------------------------------------------------------------------------
\* FakeGitRepository: the in-memory backend
\* ---------------------------------------------------------------------------

\* The repository paths the in-memory state is keyed by.
FakePaths == {<<"a">>, <<"a", "b">>, <<"b">>, <<"b", "a">>}

FileStatuses == {"modified", "added"}

\* A HashMap<K, V>: a function on the set of its keys.
HashMaps(K, V) == UNION {[D -> V] : D \in SUBSET K}

EmptyMap == [k \in {} |-> "none"]

\* HashMap::get(..).cloned()
MapGet(m, k) == IF k \in DOMAIN m THEN Some(m[k]) ELSE None

\* HashMap::insert
MapInsert(m, k, v) == [x \in DOMAIN m \cup {k} |-> IF x = k THEN v ELSE m[x]]

\* HashMap::remove
MapRemove(m, k) == [x \in DOMAIN m \ {k} |-> m[x]]

\* The orders a HashMap can be iterated in: every arrangement of its keys.
IterationOrders(m) ==
    {o \in [1..Cardinality(DOMAIN m) -> DOMAIN m] :
        \A i, j \in 1..Cardinality(DOMAIN m) : i # j => o[i] # o[j]}

\* entries.sort_unstable_by(|(a, _), (b, _)| a.cmp(&b)): ascending by path.
\* The entry with the least path comes first, then the rest, sorted.
RECURSIVE SortUnstableByPath(_)
SortUnstableByPath(entries) ==
    IF entries = <<>> THEN <<>>
    ELSE LET n == Len(entries)
             least == CHOOSE i \in 1..n :
                          \A j \in 1..n : PathCmp(entries[i][1], entries[j][1]) # "Greater"
             rest == [k \in 1..(n - 1) |-> IF k < least THEN entries[k] ELSE entries[k + 1]]
         IN  <<entries[least]>> \o SortUnstableByPath(rest)

\* A variant that collects an entry once for every prefix it starts with.
RECURSIVE StatusEntries_PerPrefix(_, _, _)
StatusEntries_PerPrefix(m, order, path_prefixes) ==
    IF path_prefixes = <<>> THEN <<>>
    ELSE LET hit(k) == PathStartsWith(k, Head(path_prefixes))
             kept == SelectSeq(order, hit)
         IN  [i \in 1..Len(kept) |-> <<kept[i], m[kept[i]]>>]
                 \o StatusEntries_PerPrefix(m, order, Tail(path_prefixes))

\* statuses.iter().filter_map(..).collect(): the entries, in iteration order,
\* whose path starts with any of the prefixes.
StatusEntries(m, order, path_prefixes) ==
    LET hit(k) == \E i \in 1..Len(path_prefixes) : PathStartsWith(k, path_prefixes[i])
        kept == SelectSeq(order, hit)
    IN  [i \in 1..Len(kept) |-> <<kept[i], m[kept[i]]>>]

\* FakeGitRepository::status
FakeStatusResult(m, order, path_prefixes) ==
    OkVal(SortUnstableByPath(StatusEntries(m, order, path_prefixes)))

NoCall == [op |-> "none"]
NoReturn == [returned |-> FALSE]
Returned(v) == [returned |-> TRUE, value |-> v]
OpenChannel == [state |-> "open", queue |-> <<>>]
NoHistory ==
    [index |-> EmptyMap, head |-> EmptyMap, sent |-> 0, last |-> EmptyMap, aborted |-> FALSE,
     created |-> {}, changed |-> None]

FakeIdle ==
    /\ head_contents = EmptyMap
    /\ index_contents = EmptyMap
    /\ statuses = EmptyMap
    /\ current_branch_name = None
    /\ branches = {}
    /\ simulated_index_write_error_message = None
    /\ event_emitter = OpenChannel
    /\ state_lock = "free"
    /\ fpc = "idle"
    /\ fcall = NoCall
    /\ fresult = NoReturn
    /\ fhist = NoHistory

\* The state a test gives the backend before it asks for the status.
FakeStatusInit ==
    /\ head_contents = EmptyMap
    /\ index_contents = EmptyMap
    /\ statuses \in HashMaps(FakePaths, FileStatuses)
    /\ current_branch_name = None
    /\ branches = {}
    /\ simulated_index_write_error_message = None
    /\ event_emitter = OpenChannel
    /\ state_lock = "free"
    /\ fpc = "idle"
    /\ fcall = NoCall
    /\ fresult = NoReturn
    /\ fhist = NoHistory

PrefixLists == SeqsUpTo(FakePaths \cup {<<>>}, MaxPrefixes)

\* status(path_prefixes): locks the state, collects, sorts, returns.
FakeStatus(path_prefixes, order) ==
    /\ fpc = "idle"
    /\ state_lock = "free"
    /\ fcall' = [op |-> "status", path_prefixes |-> path_prefixes, order |-> order]
    /\ fresult' = Returned(FakeStatusResult(statuses, order, path_prefixes))
    /\ fpc' = "returned"
    /\ fhist' = [fhist EXCEPT !.sent = 0]
    /\ UNCHANGED <<head_contents, index_contents, statuses, current_branch_name, branches,
                   simulated_index_write_error_message, event_emitter, state_lock>>

FakeStatusNext ==
    \E order \in IterationOrders(statuses) : \E path_prefixes \in PrefixLists :
        FakeStatus(path_prefixes, order) /\ UNCHANGED notFake

\* ---- the operations that change the state, and the reads next to them ----

\* The paths a test stages text for, and the texts.
IndexPaths == {<<"a">>, <<"a", "b">>}
Contents == {"x", "y"}
BranchNames == {"main", "dev"}

\* state.path: the repository path every notification carries.
RepoDir == "/repo/.git"

\* The state a test gives the backend before it calls it.
FakeInit ==
    /\ head_contents \in {EmptyMap, [p \in {<<"a">>} |-> "x"]}
    /\ index_contents \in {EmptyMap, [p \in {<<"a">>} |-> "x"]}
    /\ statuses = EmptyMap
    /\ current_branch_name = None
    /\ branches = {}
    /\ simulated_index_write_error_message \in {None, Some("simulated")}
    /\ event_emitter = OpenChannel
    /\ state_lock = "free"
    /\ fpc = "idle"
    /\ fcall = NoCall
    /\ fresult = NoReturn
    /\ fhist = NoHistory

\* A caller can start a call: none is in progress (a caller that panicked is gone).
CanCall == fpc \in {"idle", "returned", "panicked"} /\ state_lock = "free"

\* What a call remembers when it starts.
CallStarts == [fhist EXCEPT !.index = index_contents, !.head = head_contents, !.sent = 0]

\* load_index_text(path): locks, looks the path up, returns a copy.
FakeLoadIndexText(p) ==
    /\ CanCall
    /\ fcall' = [op |-> "load_index_text", path |-> p]
    /\ fresult' = Returned(MapGet(index_contents, p))
    /\ fpc' = "returned"
    /\ fhist' = CallStarts
    /\ UNCHANGED <<head_contents, index_contents, statuses, current_branch_name, branches,
                   simulated_index_write_error_message, event_emitter, state_lock>>

\* load_committed_text(path): locks, looks the path up, returns a copy.
FakeLoadCommittedText(p) ==
    /\ CanCall
    /\ fcall' = [op |-> "load_committed_text", path |-> p]
    /\ fresult' = Returned(MapGet(head_contents, p))
    /\ fpc' = "returned"
    /\ fhist' = CallStarts
    /\ UNCHANGED <<head_contents, index_contents, statuses, current_branch_name, branches,
                   simulated_index_write_error_message, event_emitter, state_lock>>

\* A variant that stages the text at every path it knows.
IndexAfterSet_AllPaths(m, p, content) ==
    IF content.some THEN [x \in DOMAIN m \cup {p} |-> content.val] ELSE EmptyMap

\* index_contents.insert(path, content) or index_contents.remove(path)
IndexAfterSet(m, p, content) ==
    IF content.some THEN MapInsert(m, p, content.val) ELSE MapRemove(m, p)

\* set_index_text(path, content) up to the notification: locks the state,
\* returns the simulated error if one is set, else changes index_contents.
FakeSetIndexText(p, content) ==
    /\ CanCall
    /\ fcall' = [op |-> "set_index_text", path |-> p, content |-> content]
    /\ fhist' = CallStarts
    /\ IF simulated_index_write_error_message.some
       THEN /\ fresult' = Returned(ErrVal(simulated_index_write_error_message.val))
            /\ fpc' = "returned"
            /\ UNCHANGED <<index_contents, state_lock>>
       ELSE /\ index_contents' = IndexAfterSet(index_contents, p, content)
            /\ fresult' = NoReturn
            /\ fpc' = "emit"
            /\ state_lock' = "held"
    /\ UNCHANGED <<head_contents, statuses, current_branch_name, branches,
                   simulated_index_write_error_message, event_emitter>>

\* change_branch(name) up to the notification
FakeChangeBranch(name) ==
    /\ CanCall
    /\ fcall' = [op |-> "change_branch", name |-> name]
    /\ fhist' = [CallStarts EXCEPT !.changed = Some(name)]
    /\ current_branch_name' = Some(name)
    /\ fresult' = NoReturn
    /\ fpc' = "emit"
    /\ state_lock' = "held"
    /\ UNCHANGED <<head_contents, index_contents, statuses, branches,
                   simulated_index_write_error_message, event_emitter>>

\* create_branch(name) up to the notification
FakeCreateBranch(name) ==
    /\ CanCall
    /\ fcall' = [op |-> "create_branch", name |-> name]
    /\ fhist' = [CallStarts EXCEPT !.created = @ \cup {name}]
    /\ branches' = branches \cup {name}
    /\ fresult' = NoReturn
    /\ fpc' = "emit"
    /\ state_lock' = "held"
    /\ UNCHANGED <<head_contents, index_contents, statuses, current_branch_name,
                   simulated_index_write_error_message, event_emitter>>

\* The orders a HashSet can be iterated in: every arrangement of its elements.
SetOrders(s) == IterationOrders([x \in s |-> TRUE])

\* A variant that marks every branch as the head once a branch was switched to.
FakeBranch_AnyCurrent(branch_name, current_branch) ==
    [is_head |-> current_branch.some,
     name |-> branch_name,
     most_recent_commit |-> None,
     upstream |-> None]

\* Branch { is_head: Some(branch_name) == current_branch.as_ref(), name,
\*          most_recent_commit: None, upstream: None }
FakeBranch(branch_name, current_branch) ==
    [is_head |-> Some(branch_name) = current_branch,
     name |-> branch_name,
     most_recent_commit |-> None,
     upstream |-> None]

\* branches(): locks, maps every element of state.branches, in the order the
\* set yields them, to a Branch and collects them.
FakeBranches(order) ==
    /\ CanCall
    /\ fcall' = [op |-> "branches"]
    /\ fresult' = Returned(OkVal([i \in 1..Cardinality(branches) |->
                                      FakeBranch(order[i], current_branch_name)]))
    /\ fpc' = "returned"
    /\ fhist' = CallStarts
    /\ UNCHANGED <<head_contents, index_contents, statuses, current_branch_name, branches,
                   simulated_index_write_error_message, event_emitter, state_lock>>

\* Sender::try_send: fails when the receiver is gone or the channel is full.
TrySendFails(ch) == ch.state = "closed" \/ Len(ch.queue) >= MaxQueued

\* A variant that sends the notification twice.
Sent_Twice(ch, v) == [ch EXCEPT !.queue = Append(Append(ch.queue, v), v)]

\* The channel after a notification was sent.
Sent(ch, v) == [ch EXCEPT !.queue = Append(ch.queue, v)]

\* state.event_emitter.try_send(state.path.clone()).expect(..): with the lock
\* held; a failed send panics, and the unwinding drops the guard.
FakeEmit ==
    /\ fpc = "emit"
    /\ IF TrySendFails(event_emitter)
       THEN /\ fpc' = "panicked"
            /\ fresult' = [returned |-> FALSE, panicked |-> TRUE]
            /\ state_lock' = "free"
            /\ fhist' = [fhist EXCEPT !.aborted = TRUE]
            /\ UNCHANGED event_emitter
       ELSE /\ event_emitter' = Sent(event_emitter, RepoDir)
            /\ fhist' = [fhist EXCEPT !.sent =
                             fhist.sent + Len(event_emitter'.queue) - Len(event_emitter.queue)]
            /\ fpc' = "emitted"
            /\ UNCHANGED <<fresult, state_lock>>
    /\ UNCHANGED <<head_contents, index_contents, statuses, current_branch_name, branches,
                   simulated_index_write_error_message, fcall>>

\* Ok(()): the guard is dropped as the call returns.
FakeReturn ==
    /\ fpc = "emitted"
    /\ fpc' = "returned"
    /\ fresult' = Returned(OkVal("unit"))
    /\ state_lock' = "free"
    /\ fhist' = IF fcall.op = "set_index_text"
                THEN [fhist EXCEPT !.last = MapInsert(fhist.last, fcall.path, fcall.content)]
                ELSE fhist
    /\ UNCHANGED <<head_contents, index_contents, statuses, current_branch_name, branches,
                   simulated_index_write_error_message, event_emitter, fcall>>

\* The test harness takes a notification from the channel.
ReceiverTakes ==
    /\ event_emitter.queue # <<>>
    /\ event_emitter' = [event_emitter EXCEPT !.queue = Tail(event_emitter.queue)]
    /\ UNCHANGED <<head_contents, index_contents, statuses, current_branch_name, branches,
                   simulated_index_write_error_message, state_lock, fpc, fcall, fresult, fhist>>

\* The test harness drops the receiving end of the channel.
ReceiverDropped ==
    /\ event_emitter.state = "open"
    /\ event_emitter' = [event_emitter EXCEPT !.state = "closed"]
    /\ UNCHANGED <<head_contents, index_contents, statuses, current_branch_name, branches,
                   simulated_index_write_error_message, state_lock, fpc, fcall, fresult, fhist>>

FakeNext ==
    \/ \E p \in IndexPaths : FakeLoadIndexText(p) /\ UNCHANGED notFake
    \/ \E p \in IndexPaths : FakeLoadCommittedText(p) /\ UNCHANGED notFake
    \/ \E p \in IndexPaths : \E content \in {None} \cup {Some(c) : c \in Contents} :
           FakeSetIndexText(p, content) /\ UNCHANGED notFake
    \/ \E name \in BranchNames : FakeChangeBranch(name) /\ UNCHANGED notFake
    \/ \E name \in BranchNames : FakeCreateBranch(name) /\ UNCHANGED notFake
    \/ FakeEmit /\ UNCHANGED notFake
    \/ FakeReturn /\ UNCHANGED notFake
    \/ ReceiverTakes /\ UNCHANGED notFake
    \/ ReceiverDropped /\ UNCHANGED notFake

\* ---------------------------------------------------------------------------
\* RealGitRepository: operations that run the external tool
\* ---------------------------------------------------------------------------

ExitCodes == {0, 1}

\* What running the tool to completion gives: an io::Error, or its Output.
IoError == [io |-> TRUE]
Output(code, out, err) == [io |-> FALSE, code |-> code, stdout |-> out, stderr |-> err]

\* One invocation of the tool, as recorded in the log of the call.
Invocation(cmd, output) == [cmd |-> cmd, output |-> output]

Whitespace == {" ", LF}

\* str::trim: without the whitespace at either end.
RECURSIVE Trim(_)
Trim(t) ==
    IF t = <<>> THEN <<>>
    ELSE IF Head(t) \in Whitespace THEN Trim(Tail(t))
    ELSE IF t[Len(t)] \in Whitespace THEN Trim(SubSeq(t, 1, Len(t) - 1))
    ELSE t

\* The branch `branches` makes up from the symbolic HEAD.
HeadBranch(name) ==
    [is_head |-> TRUE, name |-> name, most_recent_commit |-> None, upstream |-> None]

\* The object id `git hash-object` prints for a text.
ShaOf == [c \in {"x", "y"} |-> IF c = "x" THEN "sha_x" ELSE "sha_y"]

\* Entries of the index and of a tree: a regular file or a symbolic link.
RegularFile(oid) == [id |-> oid, mode |-> "100644"]
SymbolicLink(oid) == [id |-> oid, mode |-> "120000"]

RealIdle ==
    /\ xpc = "idle"
    /\ xcall = NoCall
    /\ xlog = <<>>
    /\ xresult = NoReturn
    /\ git_index = EmptyMap
    /\ cached_index = EmptyMap
    /\ odb = {}
    /\ head_tree = [born |-> FALSE, tree |-> EmptyMap]

\* branches(): the working directory is read under the lock, or the call fails.
BranchesStart ==
    /\ xpc = "idle"
    /\ xcall' = [op |-> "branches"]
    /\ xlog' = <<>>
    /\ IF workdir
       THEN /\ xpc' = "for-each-ref"
            /\ xresult' = NoReturn
       ELSE /\ xpc' = "returned"
            /\ xresult' = Returned(ErrVal(<<"failed to read git work directory", <<>>>>))
    /\ UNCHANGED <<git_index, cached_index, odb, head_tree>>

\* A variant that adds the branch of the symbolic HEAD to every listing.
AfterListing_Always(parsed) == "symbolic-ref"

\* if branches.is_empty() { .. symbolic-ref .. }
AfterListing(parsed) == IF parsed = <<>> THEN "symbolic-ref" ELSE "returned"

\* branches() after `git for-each-ref`: where the call goes on and what it
\* holds, given the run and what parse_branch_input made of its stdout.
AfterForEachRef(output, parsed) ==
    IF output.io
    THEN [pc |-> "returned", result |-> Returned(ErrVal(<<"io error", <<>>>>))]
    ELSE IF output.code # 0
    THEN [pc |-> "returned",
          result |-> Returned(ErrVal(<<"Failed to git git branches:\n",
                                       FromUtf8Lossy(output.stderr)>>))]
    ELSE IF ~parsed.ok
    THEN [pc |-> "returned", result |-> Returned(ErrVal(<<parsed.err, <<>>>>))]
    ELSE IF AfterListing(parsed.val) = "returned"
    THEN [pc |-> "returned", result |-> Returned(parsed)]
    ELSE [pc |-> AfterListing(parsed.val),
          result |-> [returned |-> FALSE, branches |-> parsed.val]]

\* branches(): `git for-each-ref` has run; its output is parsed.
BranchesForEachRef(output) ==
    /\ xpc = "for-each-ref"
    /\ xlog' = Append(xlog, Invocation("for-each-ref", output))
    /\ \E after \in {AfterForEachRef(output,
                          ParseBranchInput(FromUtf8Lossy(IF output.io THEN <<>>
                                                         ELSE output.stdout)))} :
           xpc' = after.pc /\ xresult' = after.result
    /\ UNCHANGED <<xcall, git_index, cached_index, odb, head_tree>>

\* branches(): `git symbolic-ref --quiet --short HEAD` has run.  A non-zero
\* exit means HEAD points to something other than a branch.
BranchesSymbolicRef(output) ==
    /\ xpc = "symbolic-ref"
    /\ xlog' = Append(xlog, Invocation("symbolic-ref", output))
    /\ xpc' = "returned"
    /\ xresult' =
           IF output.io THEN Returned(ErrVal(<<"io error", <<>>>>))
           ELSE IF output.code = 0
           THEN Returned(OkVal(Append(xresult.branches,
                                      HeadBranch(Trim(FromUtf8Lossy(output.stdout))))))
           ELSE Returned(OkVal(xresult.branches))
    /\ UNCHANGED <<xcall, git_index, cached_index, odb, head_tree>>

\* What `git for-each-ref` can print: a listing of branches, well-formed or
\* with a malformed record, or nothing but a line end.
ListingOutputs ==
    {BuildInput(c) : c \in {pc \in ParseCases : pc.fn = "branches"}} \cup {<<LF>>}

\* What `git symbolic-ref --quiet --short HEAD` can print.
HeadNames == {<<"m">>, <<"f", "/", "x">>}
HeadOutputs == {n \o <<LF>> : n \in HeadNames} \cup HeadNames \cup {<<>>}

ErrOutputs == SeqsUpTo(Bytes, MaxOut)

\* The runs of `git for-each-ref`: a listing, a failure, an io::Error.
ForEachRefRuns ==
    {Output(0, out, <<>>) : out \in ListingOutputs}
        \cup {Output(1, <<>>, err) : err \in ErrOutputs}
        \cup {IoError}

BranchesNext ==
    \/ BranchesStart /\ UNCHANGED notReal
    \/ \E output \in ForEachRefRuns : BranchesForEachRef(output) /\ UNCHANGED notReal
    \/ \E code \in ExitCodes : \E out \in HeadOutputs :
           BranchesSymbolicRef(Output(code, out, <<>>)) /\ UNCHANGED notReal
    \/ BranchesSymbolicRef(IoError) /\ UNCHANGED notReal

\* ---- the write operations: each runs the tool and looks at its exit status --

\* The operations that run the tool once, and the message each fails with.
SingleToolOps == {"reset", "checkout_files", "stage_paths", "unstage_paths", "commit"}

FailureMessage ==
    [o \in SingleToolOps \cup {"set_index_text add", "set_index_text remove"} |->
        CASE o = "reset" -> "Failed to reset:\n"
          [] o = "checkout_files" -> "Failed to checkout files:\n"
          [] o = "stage_paths" -> "Failed to stage paths:\n"
          [] o = "unstage_paths" -> "Failed to unstage:\n"
          [] o = "commit" -> "Failed to commit:\n"
          [] o = "set_index_text add" -> "Failed to stage:\n"
          [] o = "set_index_text remove" -> "Failed to unstage:\n"]

\* The operations that take a list of paths.
TakesPaths == {"checkout_files", "stage_paths", "unstage_paths"}

\* The tools that write the index file when they succeed.
WritesIndex == {"reset", "checkout_files", "stage_paths", "unstage_paths"}

IndexEntries == {RegularFile(ShaOf[c]) : c \in Contents} \cup {SymbolicLink(ShaOf["x"])}

IndexFiles == HashMaps(IndexPaths, IndexEntries)

WorkdirError == ErrVal(<<"failed to read git work directory", <<>>>>)

\* A call starts on a handle no call is running on.
RealCanCall == xpc \in {"idle", "returned"}

\* reset, checkout_files, stage_paths, unstage_paths, commit up to the tool:
\* checkout_files returns at once for no paths, stage_paths and unstage_paths
\* after reading the working directory; the others always run the tool.
RealStart(o, paths) ==
    /\ RealCanCall
    /\ xcall' = [op |-> o, paths |-> paths]
    /\ xlog' = <<>>
    /\ IF o = "checkout_files" /\ paths = <<>>
       THEN xpc' = "returned" /\ xresult' = Returned(OkVal("unit"))
       ELSE IF ~workdir
       THEN xpc' = "returned" /\ xresult' = Returned(WorkdirError)
       ELSE IF o \in TakesPaths /\ paths = <<>>
       THEN xpc' = "returned" /\ xresult' = Returned(OkVal("unit"))
       ELSE xpc' = "tool" /\ xresult' = NoReturn
    /\ UNCHANGED <<git_index, cached_index, odb, head_tree>>

\* let output = ..output()?; if !output.status.success() { return Err(..) }
ToolResult(message, output) ==
    IF output.io THEN ErrVal(<<"io error", <<>>>>)
    ELSE IF output.code # 0 THEN ErrVal(<<message, FromUtf8Lossy(output.stderr)>>)
    ELSE OkVal("unit")

\* The tool of a single-tool operation has run.  A tool that succeeds may
\* have written the index file; one that fails has not.
RealTool(output, written) ==
    /\ xpc = "tool"
    /\ xlog' = Append(xlog, Invocation(xcall.op, output))
    /\ xresult' = Returned(ToolResult(FailureMessage[xcall.op], output))
    /\ xpc' = "returned"
    /\ git_index' = IF ~output.io /\ output.code = 0 /\ xcall.op \in WritesIndex
                    THEN written ELSE git_index
    /\ UNCHANGED <<xcall, cached_index, odb, head_tree>>

\* reload_index(): the handle reads the index file again.
RealReloadIndex ==
    /\ RealCanCall
    /\ xcall' = [op |-> "reload_index"]
    /\ xlog' = <<>>
    /\ cached_index' = git_index
    /\ xresult' = Returned("unit")
    /\ xpc' = "returned"
    /\ UNCHANGED <<git_index, odb, head_tree>>

\* set_index_text(path, content) up to the first tool: the working directory
\* is read; with content `git hash-object` is next, without `git update-index`.
RealSetIndexTextStart(p, content) ==
    /\ RealCanCall
    /\ xcall' = [op |-> "set_index_text", path |-> p, content |-> content,
                 before |-> git_index]
    /\ xlog' = <<>>
    /\ IF ~workdir
       THEN xpc' = "returned" /\ xresult' = Returned(WorkdirError)
       ELSE IF content.some
       THEN xpc' = "hash-object" /\ xresult' = NoReturn
       ELSE xpc' = "update-index" /\ xresult' = NoReturn
    /\ UNCHANGED <<git_index, cached_index, odb, head_tree>>

\* What `git hash-object -w --stdin` does with a text: it writes the blob and
\* prints its id, or fails and prints nothing; its stderr is not piped.
HashObjectRuns(content) ==
    {Output(0, <<ShaOf[content], LF>>, <<>>)}
        \cup {Output(1, <<>>, err) : err \in ErrOutputs \ {<<>>}}

\* spawn()?, write_all(content)?, wait_with_output()?.stdout: an io::Error at
\* any of the three returns; the exit status of the tool is not looked at.
RealHashObject(io_error, output) ==
    /\ xpc = "hash-object"
    /\ IF io_error # "none"
       THEN /\ xlog' = Append(xlog, Invocation("hash-object", IoError))
            /\ xresult' = Returned(ErrVal(<<"io error", <<>>>>))
            /\ xpc' = "returned"
            /\ UNCHANGED odb
       ELSE /\ xlog' = Append(xlog, Invocation("hash-object", output))
            /\ xresult' = [returned |-> FALSE, sha |-> output.stdout]
            /\ xpc' = "update-index"
            /\ odb' = IF output.code = 0 THEN odb \cup {Head(output.stdout)} ELSE odb
    /\ UNCHANGED <<xcall, git_index, cached_index, head_tree>>

\* What `git update-index` does: with --add --cacheinfo 100644 <sha> <path>
\* it fails when <sha> does not start with an object id; a run that succeeds
\* has replaced the index file, one that fails has left it as it was.
UpdateIndexRuns(sha) ==
    {Output(1, <<>>, err) : err \in ErrOutputs}
        \cup (IF sha = <<>> THEN {} ELSE {Output(0, <<>>, <<>>)})

\* A variant whose failed run has already written the entry.
IndexAfterUpdate_Eager(index, call, sha, output) ==
    IF call.content.some
    THEN MapInsert(index, call.path, RegularFile(IF sha = <<>> THEN "none" ELSE Head(sha)))
    ELSE MapRemove(index, call.path)

\* The index file after `git update-index` ran for the call.
IndexAfterUpdate(index, call, sha, output) ==
    IF output.io \/ output.code # 0 THEN index
    ELSE IF call.content.some THEN MapInsert(index, call.path, RegularFile(Head(sha)))
    ELSE MapRemove(index, call.path)

\* set_index_text: `git update-index` has run (--add --cacheinfo with the id
\* read from hash-object, or --force-remove).
RealUpdateIndex(output) ==
    /\ xpc = "update-index"
    /\ LET sha == IF xcall.content.some THEN xresult.sha ELSE <<>>
           message == IF xcall.content.some
                      THEN FailureMessage["set_index_text add"]
                      ELSE FailureMessage["set_index_text remove"]
       IN  /\ xlog' = Append(xlog, Invocation("update-index", output))
           /\ xresult' = Returned(ToolResult(message, output))
           /\ git_index' = IndexAfterUpdate(git_index, xcall, sha, output)
    /\ xpc' = "returned"
    /\ UNCHANGED <<xcall, cached_index, odb, head_tree>>

PathLists == SeqsUpTo(IndexPaths, 1)

RealInit ==
    /\ xpc = "idle"
    /\ xcall = NoCall
    /\ xlog = <<>>
    /\ xresult = NoReturn
    /\ git_index \in {EmptyMap, [p \in {<<"a">>} |-> RegularFile(ShaOf["x"])]}
    /\ cached_index = git_index
    /\ odb = {ShaOf["x"]}
    /\ head_tree = [born |-> FALSE, tree |-> EmptyMap]

RealWriteNext ==
    \/ \E o \in SingleToolOps : \E paths \in PathLists :
           RealStart(o, paths) /\ UNCHANGED notReal
    \/ \E written \in IndexFiles :
           RealTool(Output(0, <<>>, <<>>), written) /\ UNCHANGED notReal
    \/ \E err \in ErrOutputs :
           RealTool(Output(1, <<>>, err), git_index) /\ UNCHANGED notReal
    \/ RealTool(IoError, git_index) /\ UNCHANGED notReal
    \/ RealReloadIndex /\ UNCHANGED notReal
    \/ \E p \in IndexPaths : \E content \in {None} \cup {Some(c) : c \in Contents} :
           RealSetIndexTextStart(p, content) /\ UNCHANGED notReal
    \/ \E output \in HashObjectRuns(IF xpc = "hash-object" THEN xcall.content.val ELSE "x") :
           RealHashObject("none", output) /\ UNCHANGED notReal
    \/ \E io_error \in {"spawn", "write", "wait"} :
           RealHashObject(io_error, IoError) /\ UNCHANGED notReal
    \/ \E output \in UpdateIndexRuns(IF xpc = "update-index" /\ xcall.content.some
                                     THEN xresult.sha ELSE <<"-">>) :
           RealUpdateIndex(output) /\ UNCHANGED notReal
    \/ RealUpdateIndex(IoError) /\ UNCHANGED notReal

\* ---------------------------------------------------------------------------
\* check_for_pushed_commit
\* ---------------------------------------------------------------------------

RemoteNames == {"origin", "fork"}

\* A ref name, by its components.
RemoteRef(remote, branch) == <<"refs", "remotes", remote, branch>>
LocalRef(branch) == <<"refs", "heads", branch>>
Refs == {RemoteRef("origin", "main"), RemoteRef("fork", "main"), LocalRef("main")}

\* str::strip_prefix("refs/remotes/")
StripRemotesPrefix(ref) ==
    IF Len(ref) >= 2 /\ SubSeq(ref, 1, 2) = <<"refs", "remotes">>
    THEN Some(SubSeq(ref, 3, Len(ref)))
    ELSE None

\* The lists of distinct remotes, in the order `git remote` prints them.
RemoteLists ==
    {r \in SeqsUpTo(RemoteNames, Cardinality(RemoteNames)) :
        \A i, j \in DOMAIN r : i # j => r[i] # r[j]}

\* What the tool answers in one repository: the commit of HEAD (or none), the
\* remotes (or a failure), the ref each refs/remotes/<remote>/HEAD points to
\* (or a failure), what merge-base prints for HEAD and a ref, and the
\* upstream of the checked-out branch (or a failure).
Repositories ==
    [head : {Some("c1"), None},
     remotes : {Some(r) : r \in RemoteLists} \cup {None},
     remote_head : [RemoteNames -> {Some(r) : r \in Refs} \cup {None}],
     merge_base : [Refs -> {Some("c1"), Some("c0"), None}],
     upstream : {Some(r) : r \in Refs} \cup {None}]

\* git_cmd: the trimmed stdout of a successful run; a run that fails is None.
GitCmd(answer) == IF answer.some THEN Some(Trim(<<answer.val, LF>>)[1]) ELSE None

\* add_if_matching: the ref is pushed, without its prefix, when merge-base
\* succeeds and prints the commit of HEAD and the ref is under refs/remotes/.
AddIfMatching(remote_branches, repo, head, remote_head) ==
    LET s == StripRemotesPrefix(remote_head)
    IN  IF GitCmd(repo.merge_base[remote_head]) = Some(head) /\ s.some
        THEN Append(remote_branches, s.val)
        ELSE remote_branches

\* check_for_pushed_commit up to `git rev-parse HEAD`.
PushedStart(repo) ==
    /\ xpc = "idle"
    /\ xcall' = [op |-> "check_for_pushed_commit", repo |-> repo]
    /\ IF ~workdir
       THEN xpc' = "returned" /\ xresult' = Returned(WorkdirError)
       ELSE xpc' = "rev-parse" /\ xresult' = NoReturn
    /\ UNCHANGED <<xlog, git_index, cached_index, odb, head_tree>>

\* git rev-parse HEAD, with the context "Failed to get HEAD".
PushedRevParse ==
    /\ xpc = "rev-parse"
    /\ LET head == GitCmd(xcall.repo.head)
       IN  IF head.some
           THEN /\ xpc' = "remote"
                /\ xresult' = [returned |-> FALSE, head |-> head.val,
                               remotes |-> <<>>, remote_branches |-> <<>>]
           ELSE /\ xpc' = "returned"
                /\ xresult' = Returned(ErrVal(<<"Failed to get HEAD", <<>>>>))
    /\ UNCHANGED <<xcall, xlog, git_index, cached_index, odb, head_tree>>

\* git remote, with the context "Failed to get remotes".
PushedRemotes ==
    /\ xpc = "remote"
    /\ IF xcall.repo.remotes.some
       THEN /\ xpc' = "symbolic-ref"
            /\ xresult' = [xresult EXCEPT !.remotes = xcall.repo.remotes.val]
       ELSE /\ xpc' = "returned"
            /\ xresult' = Returned(ErrVal(<<"Failed to get remotes", <<>>>>))
    /\ UNCHANGED <<xcall, xlog, git_index, cached_index, odb, head_tree>>

\* One turn of the loop over the remotes: git symbolic-ref of the remote's
\* HEAD and, if that succeeds, add_if_matching.
PushedRemoteHead ==
    /\ xpc = "symbolic-ref"
    /\ xresult.remotes # <<>>
    /\ LET remote_head == xcall.repo.remote_head[Head(xresult.remotes)]
       IN  xresult' = [xresult EXCEPT
               !.remotes = Tail(xresult.remotes),
               !.remote_branches =
                   IF remote_head.some
                   THEN AddIfMatching(xresult.remote_branches, xcall.repo,
                                      xresult.head, remote_head.val)
                   ELSE xresult.remote_branches]
    /\ UNCHANGED <<xpc, xcall, xlog, git_index, cached_index, odb, head_tree>>

\* After the loop: git rev-parse --symbolic-full-name @{u} and, if that
\* succeeds, add_if_matching; then Ok(remote_branches).
PushedUpstream ==
    /\ xpc = "symbolic-ref"
    /\ xresult.remotes = <<>>
    /\ LET remote_head == xcall.repo.upstream
       IN  xresult' = Returned(OkVal(
               IF remote_head.some
               THEN AddIfMatching(xresult.remote_branches, xcall.repo,
                                  xresult.head, remote_head.val)
               ELSE xresult.remote_branches))
    /\ xpc' = "returned"
    /\ UNCHANGED <<xcall, xlog, git_index, cached_index, odb, head_tree>>

PushedNext ==
    \/ xpc = "idle" /\ \E repo \in Repositories : PushedStart(repo) /\ UNCHANGED notReal
    \/ PushedRevParse /\ UNCHANGED notReal
    \/ PushedRemotes /\ UNCHANGED notReal
    \/ PushedRemoteHead /\ UNCHANGED notReal
    \/ PushedUpstream /\ UNCHANGED notReal

\* ---------------------------------------------------------------------------
\* load_index_text and load_committed_text of the library-backed backend
\* ---------------------------------------------------------------------------

GIT_MODE_SYMLINK == "120000"

\* The text of a blob.
ContentOf(oid) == CHOOSE c \in Contents : ShaOf[c] = oid

\* Repository::find_blob: fails for an id that is not in the object database.
FindBlob(objects, oid) ==
    IF oid \in objects THEN OkVal(ContentOf(oid)) ELSE ErrVal("object not found")

\* The HEAD of a repository without a commit cannot be resolved.
Unborn == [born |-> FALSE, tree |-> EmptyMap]
Trees == {[born |-> TRUE, tree |-> t] : t \in HashMaps(IndexPaths, IndexEntries)}

\* logic(repo, path) of load_index_text: the index handle is taken (or not),
\* the entry of stage 0 is looked up, an entry that is missing or a symbolic
\* link is Ok(None), the blob is read.
LoadIndexLogic(opens, index, objects, p) ==
    IF ~opens THEN ErrVal("index")
    ELSE LET entry == MapGet(index, p)
         IN  IF ~entry.some \/ entry.val.mode = GIT_MODE_SYMLINK
             THEN OkVal(None)
             ELSE LET blob == FindBlob(objects, entry.val.id)
                  IN  IF blob.ok THEN OkVal(Some(blob.val)) ELSE blob

\* A variant that hands the outcome of the logic to the caller as it is.
Logged_Propagates(outcome) == outcome

\* match logic(..) { Ok(value) => return value, Err(err) => log::error!(..) } None
Logged(outcome) == IF outcome.ok THEN outcome.val ELSE None

\* load_committed_text: every failure on the way (.ok()?, .log_err()?) and a
\* symbolic link is None.
LoadCommitted(head, objects, p) ==
    IF ~head.born THEN None
    ELSE LET entry == MapGet(head.tree, p)
         IN  IF ~entry.some THEN None
             ELSE IF entry.val.mode = GIT_MODE_SYMLINK THEN None
             ELSE LET blob == FindBlob(objects, entry.val.id)
                  IN  IF blob.ok THEN Some(blob.val) ELSE None

RealLoadIndexText(p, opens) ==
    /\ RealCanCall
    /\ xcall' = [op |-> "load_index_text", path |-> p]
    /\ xresult' = Returned(Logged(LoadIndexLogic(opens, cached_index, odb, p)))
    /\ xpc' = "returned"
    /\ UNCHANGED <<xlog, git_index, cached_index, odb, head_tree>>

RealLoadCommittedText(p) ==
    /\ RealCanCall
    /\ xcall' = [op |-> "load_committed_text", path |-> p]
    /\ xresult' = Returned(LoadCommitted(head_tree, odb, p))
    /\ xpc' = "returned"
    /\ UNCHANGED <<xlog, git_index, cached_index, odb, head_tree>>

\* A repository as it is opened: any index, any HEAD, any object database.
LoadInit ==
    /\ xpc = "idle"
    /\ xcall = NoCall
    /\ xlog = <<>>
    /\ xresult = NoReturn
    /\ git_index \in IndexFiles
    /\ cached_index = git_index
    /\ odb \in SUBSET {ShaOf[c] : c \in Contents}
    /\ head_tree \in Trees \cup {Unborn}

RealLoadNext ==
    \/ \E p \in IndexPaths : \E opens \in BOOLEAN :
           RealLoadIndexText(p, opens) /\ UNCHANGED notReal
    \/ \E p \in IndexPaths : RealLoadCommittedText(p) /\ UNCHANGED notReal

\* ---------------------------------------------------------------------------
\* The mutex of a backend and the callers of one handle
\* ---------------------------------------------------------------------------

Callers == {"t1", "t2"}

\* What an operation does with the mutex and the external tool, step by step:
\* lock and unlock (the guard is taken and dropped), workdir (workdir() under
\* the guard, None ends the call), spawn and wait (a subprocess is started and
\* its end awaited), more (the next subprocess is run or not), emit (try_send
\* under the guard, a failure panics).

\* let guard = self.<mutex>.lock(); .. with the guard dropped as the function
\* or the statement ends.
Locked == <<"lock", "unlock">>

\* A variant that leaves with the guard alive.
WorkingDirectory_KeepsGuard == <<"lock", "workdir">>

\* RealGitRepository::working_directory, and the same expression written out
\* in status, branches and blame: the guard is a temporary of the statement.
WorkingDirectory == <<"lock", "workdir", "unlock">>

\* new_std_command(..).output(), or spawn() and run_remote_command.
Tool == <<"spawn", "wait">>

\* GitStatus::new and Blame::for_path: they get the binary and the working
\* directory, not the handle, and run the tool.
GitStatusNew == Tool
BlameForPath == Tool

RemoteUrl == Locked

\* A variant of blame that asks for the remote url inside the first guard.
Blame_Nested == <<"lock", "workdir">> \o RemoteUrl \o <<"unlock">> \o BlameForPath

\* RealGitRepository::blame
Blame == WorkingDirectory \o RemoteUrl \o BlameForPath

\* The operations of the library-backed backend.
RealSteps ==
    [reload_index |-> Locked,
     path |-> Locked,
     main_repository_path |-> Locked,
     show |-> Locked,
     load_index_text |-> Locked,
     load_committed_text |-> Locked,
     remote_url |-> RemoteUrl,
     head_sha |-> Locked,
     merge_head_shas |-> Locked \o Locked,
     branch_exits |-> Locked,
     change_branch |-> Locked,
     create_branch |-> Locked,
     reset |-> WorkingDirectory \o Tool,
     checkout_files |-> WorkingDirectory \o Tool,
     set_index_text |-> WorkingDirectory \o Tool \o Tool,
     status |-> WorkingDirectory \o GitStatusNew,
     branches |-> WorkingDirectory \o Tool \o <<"more">> \o Tool,
     blame |-> Blame,
     diff |-> WorkingDirectory \o Tool,
     stage_paths |-> WorkingDirectory \o Tool,
     unstage_paths |-> WorkingDirectory \o Tool,
     commit |-> WorkingDirectory \o Tool,
     push |-> WorkingDirectory \o Tool,
     pull |-> WorkingDirectory \o Tool,
     fetch |-> WorkingDirectory \o Tool,
     get_remotes |-> WorkingDirectory \o Tool \o <<"more">> \o Tool,
     check_for_pushed_commit |-> WorkingDirectory \o Tool \o Tool \o <<"more">> \o Tool]

FakePath == Locked

\* The operations of the in-memory backend that do not panic at once.
FakeSteps ==
    [reload_index |-> <<>>,
     load_index_text |-> Locked,
     load_committed_text |-> Locked,
     set_index_text |-> <<"lock", "emit", "unlock">>,
     remote_url |-> <<>>,
     head_sha |-> <<>>,
     merge_head_shas |-> <<>>,
     path |-> FakePath,
     main_repository_path |-> FakePath,
     status |-> Locked,
     branches |-> Locked,
     branch_exits |-> Locked,
     change_branch |-> <<"lock", "emit", "unlock">>,
     create_branch |-> <<"lock", "emit", "unlock">>,
     blame |-> Locked]

StepsOf(h) == IF h = "real" THEN RealSteps ELSE FakeSteps

NoCaller == [op |-> "none", steps |-> <<>>, child |-> "none", ended |-> "no"]

LockIdle ==
    /\ handle = "none"
    /\ mutex = "free"
    /\ callers = [t \in Callers |-> NoCaller]

LockInit ==
    /\ handle \in {"real", "fake"}
    /\ mutex = "free"
    /\ callers = [t \in Callers |-> NoCaller]

NextStep(t) == IF callers[t].steps = <<>> THEN "none" ELSE Head(callers[t].steps)

\* The caller goes on to its next step.
Advance(t) == callers' = [callers EXCEPT ![t].steps = Tail(@)]

\* The last step made, the call has returned.
Ends(t, how) == callers' = [callers EXCEPT ![t].steps = <<>>, ![t].ended = how]

\* A caller that is in no call makes one.
LockCall(t, o) ==
    /\ callers[t].steps = <<>>
    /\ callers[t].child = "none"
    /\ callers' = [callers EXCEPT ![t] =
           [op |-> o, steps |-> StepsOf(handle)[o], child |-> "none", ended |-> "no"]]
    /\ UNCHANGED <<handle, mutex>>

\* Mutex::lock: the caller gets the guard when the mutex is free, and blocks
\* while it is not; the mutex does not know its owner.
LockAcquire(t) ==
    /\ NextStep(t) = "lock"
    /\ mutex = "free"
    /\ mutex' = t
    /\ Advance(t)
    /\ UNCHANGED handle

\* The guard is dropped.
LockRelease(t) ==
    /\ NextStep(t) = "unlock"
    /\ mutex' = "free"
    /\ Advance(t)
    /\ UNCHANGED handle

\* workdir() under the guard: a bare repository has none, and the call ends
\* with the error once the guard is dropped.
LockWorkdir(t) ==
    /\ NextStep(t) = "workdir"
    /\ callers' = [callers EXCEPT ![t].steps = IF workdir THEN Tail(@) ELSE <<"unlock">>,
                                  ![t].ended = IF workdir THEN "no" ELSE "error"]
    /\ UNCHANGED <<handle, mutex>>

\* The subprocess is started.
LockSpawn(t) ==
    /\ NextStep(t) = "spawn"
    /\ callers' = [callers EXCEPT ![t].steps = Tail(@), ![t].child = "running"]
    /\ UNCHANGED <<handle, mutex>>

\* Environment: the subprocess ends.
LockChildExits(t) ==
    /\ callers[t].child = "running"
    /\ callers' = [callers EXCEPT ![t].child = "exited"]
    /\ UNCHANGED <<handle, mutex>>

\* The caller has the output of the subprocess that ended; a failed run ends
\* the call.
LockWait(t, success) ==
    /\ NextStep(t) = "wait"
    /\ callers[t].child = "exited"
    /\ callers' = [callers EXCEPT ![t].steps = IF success THEN Tail(@) ELSE <<>>,
                                  ![t].child = "none",
                                  ![t].ended = IF success THEN "no" ELSE "error"]
    /\ UNCHANGED <<handle, mutex>>

\* The call runs the tool once more, or returns what it has.
LockMore(t, again) ==
    /\ NextStep(t) = "more"
    /\ callers' = [callers EXCEPT ![t].steps = IF again THEN Tail(@) ELSE <<>>]
    /\ UNCHANGED <<handle, mutex>>

\* try_send(..).expect(..) under the guard: a failed send panics and the
\* unwinding drops the guard.
LockEmit(t, delivered) ==
    /\ NextStep(t) = "emit"
    /\ IF delivered
       THEN Advance(t) /\ UNCHANGED mutex
       ELSE Ends(t, "panicked") /\ mutex' = "free"
    /\ UNCHANGED handle

LockNext ==
    \/ \E t \in Callers : \E o \in DOMAIN StepsOf(handle) : LockCall(t, o) /\ UNCHANGED notLock
    \/ \E t \in Callers : LockAcquire(t) /\ UNCHANGED notLock
    \/ \E t \in Callers : LockRelease(t) /\ UNCHANGED notLock
    \/ \E t \in Callers : LockWorkdir(t) /\ UNCHANGED notLock
    \/ \E t \in Callers : LockSpawn(t) /\ UNCHANGED notLock
    \/ \E t \in Callers : LockChildExits(t) /\ UNCHANGED notLock
    \/ \E t \in Callers : \E success \in BOOLEAN : LockWait(t, success) /\ UNCHANGED notLock
    \/ \E t \in Callers : \E again \in BOOLEAN : LockMore(t, again) /\ UNCHANGED notLock
    \/ \E t \in Callers : \E delivered \in BOOLEAN : LockEmit(t, delivered) /\ UNCHANGED notLock

\* ---------------------------------------------------------------------------
\* Properties of the parsers
\* ---------------------------------------------------------------------------

ParsedBranches == ppc = "done" /\ pcase.fn = "branches"
ParsedTrack == ppc = "done" /\ pcase.fn = "track"

\* C6: for every input built from a list of Branch values in the 8-field
\* NUL-separated, one-record-per-line format, parse_branch_input returns
\* exactly the original list: same order, is_head, sha, has_parent, name
\* without the prefix, upstream presence and tracking, timestamp and subject.
C6_RoundTrip ==
    (ParsedBranches /\ pcase.defect = NoDefect) => presult = OkVal(pcase.branches)

C6_Witness ==
    /\ ParsedBranches
    /\ pcase.defect = NoDefect
    /\ Len(pcase.branches) = 2
    /\ pcase.branches[1].is_head
    /\ pcase.branches[1].upstream.some
    /\ pcase.branches[1].upstream.val.tracking = Tracked(2, 1)
    /\ ~pcase.branches[2].upstream.some
    /\ pcase.branches[2].most_recent_commit.val.has_parent
    /\ presult.ok
    /\ Len(presult.val) = 2

\* C7: if any record of the input is missing one of the 8 fields, has a
\* non-integer committer date, has a ref name without the refs/heads/ prefix
\* or has an invalid tracking token, the whole call returns an error and no
\* branches, including those of earlier well-formed records, are returned.
C7_ErrorAbortsBatch ==
    (ParsedBranches /\ pcase.defect # NoDefect)
        => ~presult.ok /\ DOMAIN presult = {"ok", "err"}

C7_Witness ==
    /\ ParsedBranches
    /\ pcase.defect.kind = "missing"
    /\ pcase.defect.at = 2
    /\ pcase.defect.keep = 7
    /\ presult = ErrVal("no contents:subject")

LastCount(components, kind) ==
    LET at == {i \in 1..Len(components) : components[i].kind = kind}
    IN  IF at = {} THEN 0 ELSE components[Max(at)].n

Ahead2Behind1 == <<"[">> \o AHEAD_ \o <<"2", ",", " ">> \o BEHIND_ \o <<"1", "]">>

\* C8: parse_upstream_track maps the empty token to Tracked{0, 0}; a
\* bracket-delimited token whose components are `ahead N` and / or `behind N`
\* to Tracked with those counts (a count not mentioned is 0), so
\* "[ahead 2, behind 1]" gives Tracked{2, 1}; "[gone]" to Gone; and returns an
\* error for any non-empty token missing the leading `[` or the trailing `]`.
C8_TrackToken ==
    ParsedTrack =>
        /\ pinput = <<>> => presult = OkVal(Tracked(0, 0))
        /\ ( /\ pcase.style = "brackets"
             /\ pcase.components # <<>>
             /\ \A i \in 1..Len(pcase.components) :
                    pcase.components[i].kind \in {"ahead", "behind"} )
               => presult = OkVal(Tracked(LastCount(pcase.components, "ahead"),
                                          LastCount(pcase.components, "behind")))
        /\ pinput = Ahead2Behind1 => presult = OkVal(Tracked(2, 1))
        /\ pinput = <<"[">> \o GONE \o <<"]">> => presult = OkVal(Gone)
        /\ (pinput # <<>> /\ (Head(pinput) # "[" \/ pinput[Len(pinput)] # "]"))
               => ~presult.ok

C8_Witness ==
    /\ ParsedTrack
    /\ pinput = Ahead2Behind1
    /\ presult = OkVal(Tracked(2, 1))

\* The forms the claim names: `gone`, `ahead <N>`, `behind <N>`, N decimal.
ClaimedForm(c) ==
    \/ c.text = GONE
    \/ \E pre \in {AHEAD_, BEHIND_} :
           /\ StartsWith(c.text, pre)
           /\ Len(c.text) > Len(pre)
           /\ AllDigits(SubSeq(c.text, Len(pre) + 1, Len(c.text)))

\* The components the loop looks at: `gone`, and those it strips a prefix from.
Recognised(c) ==
    c.text = GONE \/ StartsWith(c.text, AHEAD_) \/ StartsWith(c.text, BEHIND_)

\* C9 (as claimed): every component that is not `gone`, `ahead <N>` or
\* `behind <N>` is ignored: the result is that of the token without it.
C9_AsClaimed ==
    (ParsedTrack /\ pcase.style = "brackets")
        => presult = ParseUpstreamTrack(
                         TrackToken(SelectSeq(pcase.components, ClaimedForm), "brackets"))

\* C9 (amended): every component that is not the literal `gone` and does not
\* begin with `ahead ` or `behind ` is silently ignored: it never causes an
\* error and never changes the counts or the Gone / Tracked result.  (A
\* component that begins with `ahead ` or `behind ` and whose remainder does
\* not parse as a u32 is not ignored.)
C9_UnknownIgnored ==
    (ParsedTrack /\ pcase.style = "brackets")
        => /\ presult = ParseUpstreamTrack(
                            TrackToken(SelectSeq(pcase.components, Recognised), "brackets"))
           /\ (\A i \in 1..Len(pcase.components) : ~Recognised(pcase.components[i]))
                  => presult = OkVal(Tracked(0, 0))

C9_Witness ==
    /\ ParsedTrack
    /\ pcase.style = "brackets"
    /\ Len(pcase.components) = 2
    /\ ~Recognised(pcase.components[1])
    /\ pcase.components[1].text # <<>>
    /\ pcase.components[2].kind = "ahead"
    /\ presult = OkVal(Tracked(2, 0))

\* ---------------------------------------------------------------------------
\* Properties of RepoPath
\* ---------------------------------------------------------------------------

\* C10 (as claimed): every RepoPath a constructor yields from a given path is
\* relative and does not begin with a `.` or `..` component: a rooted or
\* prefixed path, "./x" and "../x" yield no RepoPath.
C10_AsClaimed ==
    (rppc \in {"constructed", "checked"} /\ repo_path.some /\ repo_path.val # <<>>)
        => FirstComponent(repo_path.val, platform) = "Normal"

\* ---------------------------------------------------------------------------
\* Properties of the seek
\* ---------------------------------------------------------------------------

Descendants == {i \in 1..Len(keys) : PathStartsWith(keys[i], target)}

\* C11 (as claimed): a seek with RepoPathDescendants(target) over sorted keys
\* lands at the first key that has the target as an ancestor.
C11_AsClaimed ==
    (spc = "done" /\ Descendants # {}) => cursor = Min(Descendants)

\* C11 (amended): a seek with RepoPathDescendants(target) over sorted keys
\* lands just past the last key that has the target as an ancestor: every key
\* before the cursor is smaller than the target or has it as a prefix, every
\* key from the cursor on is greater than the target and does not have it as a
\* prefix, so the keys that have the target as a prefix are the contiguous run
\* that ends right before the cursor; for a key that does not have the target
\* as a prefix cmp_cursor equals the ordinary comparison of target and key.
C11_SeekPastDescendants ==
    (spc = "done") =>
        /\ cursor \in 1..(Len(keys) + 1)
        /\ \A i \in 1..Len(keys) :
               /\ i < cursor =>
                      PathStartsWith(keys[i], target) \/ PathCmp(keys[i], target) = "Less"
               /\ i >= cursor =>
                      ~PathStartsWith(keys[i], target) /\ PathCmp(keys[i], target) = "Greater"
               /\ ~PathStartsWith(keys[i], target) =>
                      CmpCursor(target, keys[i]) = PathCmp(target, keys[i])
        /\ Descendants # {} =>
               Descendants = (cursor - Cardinality(Descendants))..(cursor - 1)

C11_Witness ==
    /\ spc = "done"
    /\ Len(keys) = 3
    /\ target = <<"a">>
    /\ Descendants = {1, 2}
    /\ cursor = 3

\* ---------------------------------------------------------------------------
\* Properties of the in-memory backend
\* ---------------------------------------------------------------------------

StatusReturned == fpc = "returned" /\ fcall.op = "status"

\* The stored paths that have one of the prefixes as an ancestor.
Selected(path_prefixes) ==
    {k \in DOMAIN statuses :
        \E i \in 1..Len(path_prefixes) : PathStartsWith(k, path_prefixes[i])}

\* C12: status(path_prefixes) on the in-memory backend returns exactly the
\* stored status entries whose path has at least one element of path_prefixes
\* as an ancestor (none when path_prefixes is empty), each entry once, in
\* ascending path order.
C12_StatusFiltered ==
    StatusReturned =>
        LET entries == fresult.value.val
        IN  /\ fresult.value.ok
            /\ {entries[i][1] : i \in 1..Len(entries)} = Selected(fcall.path_prefixes)
            /\ \A i \in 1..Len(entries) : entries[i][2] = statuses[entries[i][1]]
            /\ Len(entries) = Cardinality(Selected(fcall.path_prefixes))
            /\ \A i \in 1..Len(entries) : \A j \in 1..Len(entries) :
                   i < j => PathCmp(entries[i][1], entries[j][1]) = "Less"
            /\ fcall.path_prefixes = <<>> => entries = <<>>

C12_Witness ==
    /\ StatusReturned
    /\ DOMAIN statuses = FakePaths
    /\ fcall.path_prefixes = << <<"a">>, <<"a", "b">> >>
    /\ fcall.order = << <<"b">>, <<"a", "b">>, <<"b", "a">>, <<"a">> >>
    /\ Len(fresult.value.val) = 2
    /\ fresult.value.val[1][1] = <<"a">>

\* The call last started, of the given operation, has returned.
FakeReturned(o) == fpc = "returned" /\ fcall.op = o

\* C14: on the in-memory backend, after any sequence of successful
\* set_index_text calls, load_index_text(p) returns the content of the most
\* recent set_index_text(p, Some(c)) if the last call for p had present
\* content and absent if it had absent content; set_index_text on p never
\* changes what load_index_text returns for another path or what
\* load_committed_text returns for any path.
C14_IndexFollowsLastSet ==
    /\ (FakeReturned("load_index_text") /\ ~fhist.aborted /\ fcall.path \in DOMAIN fhist.last)
           => fresult.value = fhist.last[fcall.path]
    /\ fcall.op = "set_index_text"
           => /\ head_contents = fhist.head
              /\ \A q \in IndexPaths \ {fcall.path} :
                     MapGet(index_contents, q) = MapGet(fhist.index, q)

C14_Witness ==
    /\ FakeReturned("load_index_text")
    /\ ~fhist.aborted
    /\ fcall.path = <<"a">>
    /\ DOMAIN fhist.last = IndexPaths
    /\ fhist.last[<<"a">>] = None
    /\ fhist.last[<<"a", "b">>] = Some("y")
    /\ fresult.value = None
    /\ index_contents = [p \in {<<"a", "b">>} |-> "y"]

\* The places of the token where the component is `gone`.
GoneAt(components) == {i \in 1..Len(components) : components[i].text = GONE}

\* A component the loop strips `ahead ` or `behind ` from and whose remainder
\* is not a u32.
BadCount(c) ==
    \/ StartsWith(c.text, AHEAD_) /\ ~ParseU32(StripPrefix(c.text, AHEAD_).val).ok
    \/ StartsWith(c.text, BEHIND_) /\ ~ParseU32(StripPrefix(c.text, BEHIND_).val).ok

\* C21 as stated: a bracket-delimited token that contains the component
\* `gone` at any position yields Gone, whatever the other components before
\* or after it are.
C21_AsClaimed ==
    (ParsedTrack /\ pcase.style = "brackets" /\ GoneAt(pcase.components) # {})
        => presult = OkVal(Gone)

\* C21 (amended): a bracket-delimited token that contains the component
\* `gone` yields Gone, whatever the components after it are, and whatever
\* the components before it are as long as none of them begins with `ahead `
\* or `behind ` followed by something that is not a u32; such a component
\* before the first `gone` makes the call return an error instead.
C21_GoneShortCircuits ==
    (ParsedTrack /\ pcase.style = "brackets" /\ GoneAt(pcase.components) # {})
        => LET first == Min(GoneAt(pcase.components))
               bad == \E j \in 1..(first - 1) : BadCount(pcase.components[j])
           IN  /\ ~bad => presult = OkVal(Gone)
               /\ bad => ~presult.ok

\* `gone` came first and a malformed count after it: Gone.
C21_Witness ==
    /\ ParsedTrack
    /\ pcase.style = "brackets"
    /\ Len(pcase.components) = 2
    /\ pcase.components[1].text = GONE
    /\ BadCount(pcase.components[2])
    /\ presult = OkVal(Gone)

\* ---------------------------------------------------------------------------
\* Properties of branches() on the in-memory backend
\* ---------------------------------------------------------------------------

\* The positions of the branches a listing reports as the head.
Heads(listed) == {i \in 1..Len(listed) : listed[i].is_head}

\* C23: on the in-memory backend, after any sequence of create_branch and
\* change_branch calls, branches() lists each created branch name exactly
\* once and reports at most one branch as the head; it reports one exactly
\* when the name last passed to change_branch is among the created names,
\* and change_branch does not reject a name that was never created.
C23_ListsCreatedOnce ==
    /\ FakeReturned("branches") =>
           LET listed == fresult.value.val
           IN  /\ fresult.value.ok
               /\ {listed[i].name : i \in 1..Len(listed)} = fhist.created
               /\ \A i, j \in 1..Len(listed) : listed[i].name = listed[j].name => i = j
               /\ Cardinality(Heads(listed)) <= 1
               /\ (Heads(listed) # {}) <=>
                      (fhist.changed.some /\ fhist.changed.val \in fhist.created)
               /\ \A i \in Heads(listed) : Some(listed[i].name) = fhist.changed
    /\ FakeReturned("change_branch") =>
           /\ fresult.value = OkVal("unit")
           /\ current_branch_name = Some(fcall.name)

\* Two branches were created, one of them switched to, and branches() lists
\* both with one head.
C23_Witness ==
    /\ FakeReturned("branches")
    /\ fhist.created = BranchNames
    /\ Len(fresult.value.val) = 2
    /\ Cardinality(Heads(fresult.value.val)) = 1

\* ---------------------------------------------------------------------------

\* The caller has a subprocess: started and not yet collected.
HasSubprocess(t) == callers[t].child \in {"running", "exited"}

\* C22: in the library-backed backend no operation that invokes the external
\* tool holds the repository mutex while the subprocess runs: the lock is
\* taken only to read metadata and is released before the subprocess is
\* spawned, so another caller of the same handle can take the lock while the
\* subprocess of an operation is running.
C22_NoLockWhileToolRuns ==
    handle = "real" =>
        \A t \in Callers :
            (HasSubprocess(t) \/ NextStep(t) \in {"spawn", "wait", "more"}) => mutex # t

\* branches has its subprocess running and another caller holds the mutex
\* inside load_index_text.
C22_Witness ==
    /\ handle = "real"
    /\ callers["t1"].op = "branches"
    /\ callers["t1"].child = "running"
    /\ callers["t2"].op = "load_index_text"
    /\ mutex = "t2"

\* C24: no operation of either backend tries to take the backend's
\* non-reentrant mutex while the same call already holds it, the operations
\* that lock more than once included, so a caller never waits for itself.
C24_NoReentrantLock ==
    \A t \in Callers : NextStep(t) = "lock" => mutex # t

\* merge_head_shas holds the mutex for the second time: it took it, released
\* it and took it again.
C24_Witness ==
    /\ handle = "real"
    /\ callers["t1"].op = "merge_head_shas"
    /\ callers["t1"].steps = <<"unlock">>
    /\ mutex = "t1"

\* ---------------------------------------------------------------------------
\* Properties of set_index_text on both backends
\* ---------------------------------------------------------------------------

FakeSetting == fcall.op = "set_index_text" /\ fpc # "idle"
RealSetting == xcall.op = "set_index_text" /\ xpc # "idle"
FakeFailed == FakeSetting /\ fpc = "returned" /\ ~fresult.value.ok
FakeAborted == FakeSetting /\ fpc = "panicked"
FakeSucceeded == FakeSetting /\ fpc = "returned" /\ fresult.value.ok
RealFailed == RealSetting /\ xpc = "returned" /\ ~xresult.value.ok
RealSucceeded == RealSetting /\ xpc = "returned" /\ xresult.value.ok

\* The index file the call asks for: the entry of its path written as a
\* regular file holding the content, or removed.
RealIndexAsked ==
    IF xcall.content.some
    THEN MapInsert(xcall.before, xcall.path, RegularFile(ShaOf[xcall.content.val]))
    ELSE MapRemove(xcall.before, xcall.path)

FakeIndexAsked == IndexAfterSet(fhist.index, fcall.path, fcall.content)

NotifyingOps == {"set_index_text", "change_branch", "create_branch"}
ReadingOps == {"load_index_text", "load_committed_text"}

\* The change the call in progress asks for is in the state.
MutationApplied ==
    CASE fcall.op = "set_index_text" -> index_contents = FakeIndexAsked
      [] fcall.op = "change_branch" -> current_branch_name = Some(fcall.name)
      [] fcall.op = "create_branch" -> fcall.name \in branches
      [] OTHER -> TRUE

\* C16: on the in-memory backend every successful set_index_text,
\* change_branch and create_branch sends exactly one notification, carrying
\* the repository path, after the mutation is applied and while the state
\* lock is held; a call that fails with the simulated index-write error sends
\* none; read operations send none.
C16_OneNotification ==
    /\ (fcall.op \in NotifyingOps /\ fpc = "returned" /\ fresult.value.ok)
           => fhist.sent = 1
    /\ (fcall.op \in NotifyingOps /\ fpc = "emit")
           => fhist.sent = 0 /\ state_lock = "held" /\ MutationApplied
    /\ (fcall.op \in NotifyingOps /\ fpc = "emitted")
           => /\ fhist.sent = 1
              /\ state_lock = "held"
              /\ MutationApplied
    /\ \A i \in DOMAIN event_emitter.queue : event_emitter.queue[i] = RepoDir
    /\ FakeFailed => fhist.sent = 0
    /\ fcall.op \in ReadingOps => fhist.sent = 0
    /\ fpc \in {"emit", "emitted"} => fcall.op \in NotifyingOps

\* A successful create_branch has sent its one notification, and a failed
\* set_index_text before it had sent none.
C16_Witness ==
    /\ fcall.op = "create_branch"
    /\ fpc = "returned"
    /\ fresult.value.ok
    /\ fhist.sent = 1
    /\ event_emitter.queue = <<RepoDir>>
    /\ simulated_index_write_error_message.some

\* ---------------------------------------------------------------------------
\* Properties of check_for_pushed_commit
\* ---------------------------------------------------------------------------

PushedReturned ==
    xpc = "returned" /\ xcall.op = "check_for_pushed_commit" /\ xresult.value.ok

\* The ref's merge-base with HEAD is HEAD.
ContainsHead(repo, ref) == repo.merge_base[ref] = repo.head

\* The name a ref is reported by.
Reported(ref) == StripRemotesPrefix(ref).val

RECURSIVE MatchingRemoteHeads(_, _)
\* The matching symbolic-HEAD refs of the remotes, in enumeration order.
MatchingRemoteHeads(repo, remotes) ==
    IF remotes = <<>> THEN <<>>
    ELSE LET remote_head == repo.remote_head[Head(remotes)]
             rest == MatchingRemoteHeads(repo, Tail(remotes))
         IN  IF remote_head.some /\ ContainsHead(repo, remote_head.val)
             THEN <<Reported(remote_head.val)>> \o rest
             ELSE rest

\* The repositories whose refs in question are all under refs/remotes/.
OnlyRemoteRefs(repo) ==
    /\ \A r \in RemoteNames : repo.remote_head[r].some =>
           StripRemotesPrefix(repo.remote_head[r].val).some
    /\ repo.upstream.some => StripRemotesPrefix(repo.upstream.val).some

\* C17 as stated: check_for_pushed_commit returns every remote's
\* symbolic-HEAD ref whose merge-base with local HEAD equals local HEAD, in
\* remote enumeration order, followed by the upstream of the current branch
\* only if it also matches and is distinct from those already listed; no ref
\* appears twice in the result.
C17_AsClaimed ==
    (PushedReturned /\ OnlyRemoteRefs(xcall.repo)) =>
        LET repo == xcall.repo
            listed == MatchingRemoteHeads(repo, repo.remotes.val)
            pushed == xresult.value.val
        IN  /\ pushed =
                 IF /\ repo.upstream.some
                    /\ ContainsHead(repo, repo.upstream.val)
                    /\ \A i \in DOMAIN listed : listed[i] # Reported(repo.upstream.val)
                 THEN Append(listed, Reported(repo.upstream.val))
                 ELSE listed
            /\ \A i, j \in DOMAIN pushed : i # j => pushed[i] # pushed[j]

\* ---------------------------------------------------------------------------
\* Properties of the write operations of the library-backed backend
\* ---------------------------------------------------------------------------

WriteOps == SingleToolOps \cup {"set_index_text"}

\* The run ended with an exit status other than zero.
ExitedNonZero(output) == ~output.io /\ output.code # 0

\* C18 as stated: for every write operation of the library-backed backend
\* (reset, checkout_files, stage_paths, unstage_paths, commit, and each
\* subprocess step of set_index_text, the blob-writing step included), a
\* non-zero exit status of the tool makes the operation return a failure that
\* carries the standard error of that process, and the tool is not invoked
\* again for that call.
C18_AsClaimed ==
    xcall.op \in WriteOps =>
        \A i \in DOMAIN xlog :
            ExitedNonZero(xlog[i].output) =>
                /\ i = Len(xlog)
                /\ xpc = "returned"
                /\ ~xresult.value.ok
                /\ xresult.value.err[2] = FromUtf8Lossy(xlog[i].output.stderr)

\* ---------------------------------------------------------------------------
\* Properties of load_index_text and load_committed_text
\* ---------------------------------------------------------------------------

Options(S) == {None} \cup {Some(v) : v \in S}

\* The map has no entry for the path, or the entry is a symbolic link.
NoEntryOrLink(m, p) == p \notin DOMAIN m \/ m[p].mode = GIT_MODE_SYMLINK

\* C19: load_index_text and load_committed_text never return an error: for a
\* path with no entry in the index (respectively in HEAD) and for a path whose
\* entry is a symbolic link each returns absent, the same value for both
\* causes.
C19_AbsentNotError ==
    /\ (xpc = "returned" /\ xcall.op = "load_index_text")
           => /\ xresult.value \in Options(Contents)
              /\ NoEntryOrLink(cached_index, xcall.path) => xresult.value = None
    /\ (xpc = "returned" /\ xcall.op = "load_committed_text")
           => /\ xresult.value \in Options(Contents)
              /\ (~head_tree.born \/ NoEntryOrLink(head_tree.tree, xcall.path))
                     => xresult.value = None
    /\ FakeReturned("load_index_text")
           => /\ fresult.value \in Options(Contents)
              /\ fcall.path \notin DOMAIN index_contents => fresult.value = None
    /\ FakeReturned("load_committed_text")
           => /\ fresult.value \in Options(Contents)
              /\ fcall.path \notin DOMAIN head_contents => fresult.value = None

\* load_index_text returned absent for a symbolic link whose blob is there,
\* in a repository where the other path has no entry.
C19_Witness ==
    /\ xpc = "returned"
    /\ xcall.op = "load_index_text"
    /\ xcall.path = <<"a">>
    /\ cached_index = [p \in {<<"a">>} |-> SymbolicLink(ShaOf["x"])]
    /\ ShaOf["x"] \in odb
    /\ xresult.value = None

\* ---------------------------------------------------------------------------
\* Progress of the remote-operation engine
\* ---------------------------------------------------------------------------

InEngine == rpc \in {"pollA", "pollB", "parked"}
SessionResolved == ask_pass # "pending"
SubprocessResolved == git_process.state \in {"exited", "ioerror"}

\* C20: a call to run_remote_command returns as soon as either the credential
\* session or the subprocess resolves: when the executor keeps polling and
\* waking, if one of the two resolves the call eventually returns, and it
\* does not return before one of them has resolved.
C20_ReturnsOnceResolved ==
    /\ (InEngine /\ (SessionResolved \/ SubprocessResolved)) ~> EngineReturned
    /\ [](EngineReturned => (SessionResolved \/ SubprocessResolved))
    /\ []((InEngine /\ ~SessionResolved /\ ~SubprocessResolved) => returns = 0)

\* The call returned with the subprocess's outcome after the thread had been
\* parked with both pending: the session still is.
C20_Witness ==
    /\ EngineReturned
    /\ ~SessionResolved
    /\ SubprocessResolved
    /\ firstReady = "process"
    /\ ~atPoll.ask
    /\ ~atPoll.proc

\* ---------------------------------------------------------------------------
\* Properties of the library-backed backend
\* ---------------------------------------------------------------------------

BranchesReturned == xpc = "returned" /\ xcall.op = "branches"

\* The listing the call parsed, if `git for-each-ref` ran and succeeded.
ListingParsed ==
    IF Len(xlog) >= 1 /\ ~xlog[1].output.io /\ xlog[1].output.code = 0
    THEN ParseBranchInput(FromUtf8Lossy(xlog[1].output.stdout))
    ELSE ErrVal("no listing")

\* C13: when the branch listing parses to zero branches and the symbolic HEAD
\* resolves to a name X, branches() returns exactly one branch with name X,
\* is_head = true, upstream = None and most_recent_commit = None; when at
\* least one branch parses, no synthesized branch is added.
C13_SynthesizedHead ==
    (BranchesReturned /\ ListingParsed.ok) =>
        /\ ( /\ ListingParsed.val = <<>>
             /\ Len(xlog) = 2
             /\ ~xlog[2].output.io
             /\ xlog[2].output.code = 0 )
               => \A name \in HeadNames :
                      xlog[2].output.stdout \in {name, name \o <<LF>>}
                          => xresult.value = OkVal(<< [is_head |-> TRUE,
                                                       name |-> name,
                                                       upstream |-> None,
                                                       most_recent_commit |-> None] >>)
        /\ ListingParsed.val # <<>>
               => /\ xresult.value = OkVal(ListingParsed.val)
                  /\ Len(xlog) = 1
                  /\ \A i \in 1..Len(xresult.value.val) :
                         xresult.value.val[i].most_recent_commit.some

C13_Witness ==
    /\ BranchesReturned
    /\ Len(xlog) = 2
    /\ xlog[1].output.stdout = <<LF>>
    /\ xlog[2].output.code = 0
    /\ xlog[2].output.stdout = <<"f", "/", "x", LF>>
    /\ xresult.value.ok
    /\ Len(xresult.value.val) = 1
    /\ xresult.value.val[1].name = <<"f", "/", "x">>

\* ---------------------------------------------------------------------------
\* Specifications
\* ---------------------------------------------------------------------------

\* The remote-operation engine.
Init == RemoteInit /\ ParseIdle /\ PathIdle /\ SeekIdle /\ LockIdle /\ FakeIdle /\ RealIdle
Next == RemoteNext
Spec == Init /\ [][Next]_vars

\* The engine under an executor that keeps running the future: a poll that is
\* due is made, and a parked thread whose waker fired is woken. The session
\* and the subprocess resolve when they will.
Fairness ==
    /\ WF_vars(PollA /\ UNCHANGED notRemote)
    /\ WF_vars(PollB /\ UNCHANGED notRemote)
    /\ WF_vars(Wake /\ UNCHANGED notRemote)
SpecLive == Init /\ [][Next]_vars /\ Fairness

\* The parsers, each applied to one input.
InitParse == RemoteIdle /\ workdir = TRUE /\ ParseInit /\ PathIdle /\ SeekIdle /\ LockIdle /\ FakeIdle /\ RealIdle
NextParse == ParseNext
SpecParse == InitParse /\ [][NextParse]_vars

\* RepoPath: one path handed to one constructor, then validated at its use.
InitPath == RemoteIdle /\ workdir = TRUE /\ ParseIdle /\ PathInit /\ SeekIdle /\ LockIdle /\ FakeIdle /\ RealIdle
NextPath == PathNext
SpecPath == InitPath /\ [][NextPath]_vars

\* A seek with a RepoPathDescendants target over one sorted map.
InitSeek == RemoteIdle /\ workdir = TRUE /\ ParseIdle /\ PathIdle /\ SeekInit /\ LockIdle /\ FakeIdle /\ RealIdle
NextSeek == SeekNext
SpecSeek == InitSeek /\ [][NextSeek]_vars

\* The in-memory backend asked for the status of stored entries.
InitStatus == RemoteIdle /\ workdir = TRUE /\ ParseIdle /\ PathIdle /\ SeekIdle /\ LockIdle /\ FakeStatusInit /\ RealIdle
NextStatus == FakeStatusNext
SpecStatus == InitStatus /\ [][NextStatus]_vars

\* branches() of the library-backed backend, through the external tool.
InitBranches ==
    RemoteIdle /\ workdir \in BOOLEAN /\ ParseIdle /\ PathIdle /\ SeekIdle /\ LockIdle /\ FakeIdle /\ RealIdle
NextBranches == BranchesNext
SpecBranches == InitBranches /\ [][NextBranches]_vars

\* The in-memory backend under a test that stages text and switches branches.
InitFake ==
    RemoteIdle /\ workdir = TRUE /\ ParseIdle /\ PathIdle /\ SeekIdle /\ LockIdle /\ FakeInit /\ RealIdle
NextFake == FakeNext
SpecFake == InitFake /\ [][NextFake]_vars

\* The write operations of the library-backed backend.
InitReal ==
    RemoteIdle /\ workdir \in BOOLEAN /\ ParseIdle /\ PathIdle /\ SeekIdle /\ LockIdle /\ FakeIdle /\ RealInit
NextReal == RealWriteNext
SpecReal == InitReal /\ [][NextReal]_vars

\* set_index_text of either backend: the caller holds one of the two, the
\* other stays as constructed.
InitIndex ==
    /\ RemoteIdle /\ workdir \in BOOLEAN /\ ParseIdle /\ PathIdle /\ SeekIdle /\ LockIdle
    /\ \/ FakeInit /\ RealIdle /\ workdir
       \/ FakeIdle /\ RealInit
NextIndex ==
    \/ RealIdle /\ FakeNext
    \/ FakeIdle /\ RealWriteNext
SpecIndex == InitIndex /\ [][NextIndex]_vars

\* check_for_pushed_commit of the library-backed backend.
InitPushed ==
    RemoteIdle /\ workdir \in BOOLEAN /\ ParseIdle /\ PathIdle /\ SeekIdle /\ LockIdle /\ FakeIdle /\ RealIdle
NextPushed == PushedNext
SpecPushed == InitPushed /\ [][NextPushed]_vars

\* The reads of index and HEAD texts of either backend: the caller holds one
\* of the two, the other stays as constructed.
InitLoad ==
    /\ RemoteIdle /\ workdir = TRUE /\ ParseIdle /\ PathIdle /\ SeekIdle /\ LockIdle
    /\ \/ FakeInit /\ RealIdle
       \/ FakeIdle /\ LoadInit
NextLoad ==
    \/ RealIdle /\ FakeNext
    \/ FakeIdle /\ RealLoadNext
SpecLoad == InitLoad /\ [][NextLoad]_vars

\* The in-memory backend under a test that also lists the branches.
InitListing ==
    RemoteIdle /\ workdir = TRUE /\ ParseIdle /\ PathIdle /\ SeekIdle /\ LockIdle /\ FakeInit /\ RealIdle
NextListing ==
    \/ FakeNext
    \/ \E order \in SetOrders(branches) : FakeBranches(order) /\ UNCHANGED notFake
SpecListing == InitListing /\ [][NextListing]_vars

\* Two callers of one handle and its mutex.
InitLock ==
    RemoteIdle /\ workdir \in BOOLEAN /\ ParseIdle /\ PathIdle /\ SeekIdle /\ FakeIdle /\ RealIdle /\ LockInit
NextLock == LockNext
SpecLock == InitLock /\ [][NextLock]_vars
====
